---- MODULE Spec2Model ----
(***************************************************************************)
(* ChromiumPool and the analyze pipeline of the UI analyser agent          *)
(* (apps/agent/src/analyzer/analyzer.py, apps/agent/src/main.py).          *)
(*                                                                         *)
(* Tasks are asyncio tasks on one event loop: the code between two awaits  *)
(* is one atomic action; every await is a point where other tasks run.     *)
(* A task either calls the pool directly (start/acquire/release/close) or  *)
(* runs one analyze flow, which the HTTP handler may cancel once           *)
(* (asyncio.wait_for).                                                     *)
(***************************************************************************)
EXTENDS Integers, Sequences, FiniteSets, TLC

\* ---------------------------------------------------------------- bounds
\* NumFlows analyze requests and NumCallers direct callers run concurrently; the
\* pool is sized max_browsers x max_tabs_per_browser (config.py: 4 x 8).
\* Page, browser and driver objects are named in the order of their creation. The
\* identities bound a run: once they are used up, the driver call that would
\* create the next object can only raise.
NumFlows == 2
NumCallers == 2
max_browsers == 2
max_tabs_per_browser == 2
MaxPageIds == 4
MaxBrowserIds == 3
MaxDriverIds == 2

\* Flows serve one analyze request each; Callers call the pool directly.
Flows == 1..NumFlows
Callers == (NumFlows + 1)..(NumFlows + NumCallers)
Tasks == Flows \cup Callers
PageIds == 1..MaxPageIds
BrowserIds == 1..MaxBrowserIds
DriverIds == 1..MaxDriverIds

VARIABLES
    browsers,      \* self.browsers: sequence of [b |-> browser, pages |-> sequence of pages]
    playwright,    \* self.playwright: 0 is None, else the driver
    lockHolder,    \* self.lock: the task that owns it (0: unlocked)
    lockWaiters,   \* self.lock: the FIFO of tasks suspended in lock.acquire()
    closedB,       \* browsers on which browser.close() has been awaited
    liveDrivers,   \* drivers created by async_playwright().start() and not stopped
    nextPage,      \* identity of the next page object new_page() creates
    nextBrowser,   \* identity of the next browser object launch() creates
    fs,            \* the screenshots directory: path -> image content (NoFile: absent)
    task           \* per task: where it is suspended and its local variables

vars == <<browsers, playwright, lockHolder, lockWaiters, closedB, liveDrivers,
          nextPage, nextBrowser, fs, task>>
poolVars == <<browsers, playwright>>
lockVars == <<lockHolder, lockWaiters>>
envVars == <<closedB, liveDrivers, nextPage, nextBrowser>>

\* ---------------------------------------------------------- task locals
\*   pc        where the task is suspended ("idle": not in any call)
\*   inFlow    the task runs analyze_website (else it calls the pool directly)
\*   op        the pool operation called last; result: how that call ended
\*   page      local `page` of _capture_single_screenshot (0: None)
\*   curB      local `browser` of the pool operation in progress
\*   curD      the driver object close() is stopping
\*   relPage   argument `page` of the release in progress
\*   ci, cj    close(): index of the browser / page being closed
\*   swallowed a page.close()/browser.close() raised inside the call and was
\*             swallowed (kept for a direct caller after the call)
\*   old       the analyze call is the one of src/apps/agent/analyzer.py
\*   lh        what get_lighthouse_metrics did: returned a record with
\*             available True / False, or raised
\*   clock     seconds since the handler began to await analyze_website
\*   dur       seconds the audit command started by the flow needs
\*   dk        _ensure_docker_running: config.auto_start_docker, sys.platform,
\*             which of Docker.app, systemctl and service exist, the index of
\*             the polling loop, the `docker info` runs and the start commands
\*             after the initial check, how the last `docker info` ended, and
\*             what the call returned
\*   json      `result`, the parsed output of the audit command
\*   metrics   what get_lighthouse_metrics returns for it
\*   nav       load_time of the desktop and of the mobile capture result
\*   load_time, lighthouse_data   arguments of analyze_screenshots
\*   figure    actual_load_time, the load time written into the prompt
\*   reply     what `await self.llm.ainvoke(messages)` is going to do
\*   issues    issues_list of the handler
\*   url, save the request: its URL (a sequence of characters), save_screenshots
\*   now       datetime.now() at the time the screenshots are saved
\*   faults    the file operations of the persistence step that raise OSError
\*   saved     the final files the persistence step created
\*   error     str(e) of the exception the capture in progress is going to raise
\*   message   error_message of the failed capture: the template used and
\*             the part of the raw error text embedded in it
\*   device    device_type of the capture in progress
\*   capRes    what the capture in progress is going to return
\*   timedOut  wait_for has cancelled the flow (CancelledError is propagating)
\*   graded    the image contents analyze_screenshots read
\*   outcome   how the last analyze call of the task ended
NoFile == <<0, "none">>
\* Python's None where a number is expected
None == -1
\* {"available": False}
NoAudit == [available |-> FALSE, fcp_seconds |-> None, performance_score |-> None]
NoReply == [ok |-> FALSE, lines |-> <<>>]
NoTime == [year |-> 0, month |-> 0, day |-> 0, hour |-> 0, minute |-> 0]
NoSaved == [desktop |-> <<>>, mobile |-> <<>>]
\* self.desktop_screenshot_path, self.mobile_screenshot_path: unset, the temp
\* path of the device, or a final name.
NoPath == [kind |-> "none", name |-> <<>>]
TempRecorded == [desktop |-> [kind |-> "temp", name |-> <<>>],
                 mobile |-> [kind |-> "temp", name |-> <<>>]]
NoRecorded == [desktop |-> NoPath, mobile |-> NoPath]
NoNav == [desktop |-> 0, mobile |-> 0]
NoMessage == [kind |-> "none", detail |-> <<>>]
NoDocker == [auto |-> FALSE, platform |-> "none", app |-> FALSE, systemctl |-> FALSE,
             service |-> FALSE, i |-> 0, probes |-> 0, starts |-> 0, last |-> "none",
             ret |-> "none"]
\* A field of the audit JSON: a number, or why there is none.
Missing(k) == [kind |-> k, value |-> 0]
Num(v) == [kind |-> "number", value |-> v]
\* `{}`
NoJson == [other |-> FALSE, perf |-> Missing("absent"), audits |-> FALSE,
           fcp |-> Missing("absent"), lcp |-> Missing("absent"),
           cls |-> Missing("absent"), tbt |-> Missing("absent")]
\* {"available": False}, with every figure unset
NoMetrics == [available |-> FALSE, performance_score |-> None, fcp_seconds |-> None,
              lcp_seconds |-> None, cls_value |-> None, tbt_ms |-> None]
NoTask == [pc |-> "idle", inFlow |-> FALSE, op |-> "none", result |-> "none", page |-> 0,
           curB |-> 0, curD |-> 0, relPage |-> 0, ci |-> 0, cj |-> 0,
           swallowed |-> FALSE, old |-> FALSE, lh |-> "none", clock |-> 0, dur |-> 0,
           dk |-> NoDocker, json |-> NoJson, metrics |-> NoMetrics,
           nav |-> NoNav, load_time |-> 0, lighthouse_data |-> NoAudit,
           figure |-> None, reply |-> NoReply,
           issues |-> <<>>, url |-> <<>>, save |-> FALSE, now |-> NoTime,
           faults |-> {}, saved |-> NoSaved, recorded |-> NoRecorded,
           error |-> <<>>, message |-> NoMessage,
           device |-> "none", capRes |-> "none",
           timedOut |-> FALSE,
           graded |-> <<NoFile, NoFile>>, outcome |-> "none"]

Paths == {"temp_desktop", "temp_mobile"}

\* "acq_call" and "cap_done" are not awaits: a task there runs on to its next
\* await before any other task runs.
Running == {t \in Tasks : task[t].pc \in {"acq_call", "cap_done"}}

\* Task t runs up to its next await, where its record is r.
Set(t, r) ==
    /\ Running \subseteq {t}
    /\ task' = [task EXCEPT ![t] = r]

\* ------------------------------------------------------------- helpers
RECURSIVE SumLens(_)
SumLens(s) == IF s = <<>> THEN 0 ELSE Len(Head(s).pages) + SumLens(Tail(s))

NumPages == SumLens(browsers)
Capacity == max_browsers * max_tabs_per_browser

InSeq(x, s) == \E k \in 1..Len(s) : s[k] = x
Registered(p) == \E i \in 1..Len(browsers) : InSeq(p, browsers[i].pages)
Tracked(b) == \E i \in 1..Len(browsers) : browsers[i].b = b

MinOf(S) == IF S = {} THEN 0 ELSE CHOOSE i \in S : \A k \in S : i <= k

\* Variant of FirstWithRoom: the scan takes the last browser with a free slot.
LastWithRoom ==
    LET S == {i \in 1..Len(browsers) : Len(browsers[i].pages) < max_tabs_per_browser}
    IN IF S = {} THEN 0 ELSE CHOOSE i \in S : \A k \in S : i >= k

\* Variant of FirstWithRoom: the slot test is `<=` (a full browser still has room).
FirstWithRoomInclusive ==
    MinOf({i \in 1..Len(browsers) : Len(browsers[i].pages) <= max_tabs_per_browser})

\* `for browser, pages in self.browsers: if len(pages) < self.max_tabs_per_browser`
FirstWithRoom ==
    MinOf({i \in 1..Len(browsers) : Len(browsers[i].pages) < max_tabs_per_browser})

\* `for browser, pages in self.browsers: if page in pages`
FirstHolding(p) == MinOf({i \in 1..Len(browsers) : InSeq(p, browsers[i].pages)})

\* The driver object a startup creates: one that is not alive (0: none left).
NewDriver == MinOf(DriverIds \ liveDrivers)

IndexOfB(b) == MinOf({i \in 1..Len(browsers) : browsers[i].b = b})

\* list.remove(x): drops the first occurrence
RemoveAt(s, k) == [i \in 1..(Len(s) - 1) |-> IF i < k THEN s[i] ELSE s[i + 1]]
RemoveFirst(s, x) ==
    LET k == MinOf({m \in 1..Len(s) : s[m] = x}) IN IF k = 0 THEN s ELSE RemoveAt(s, k)


\* ---------------------------------------------------------------- lock
\* Variant of LockFree: only the queue is looked at, never the owner.
LockFreeNoHolder == lockWaiters = <<>>

\* asyncio.Lock: acquire() returns at once when unlocked with no waiter, else
\* the caller queues; release() wakes the first waiter, which then owns the lock.
LockFree == lockHolder = 0 /\ lockWaiters = <<>>
Hold(t) == lockHolder' = t /\ UNCHANGED lockWaiters
Unlock ==
    IF lockWaiters = <<>>
    THEN lockHolder' = 0 /\ UNCHANGED lockWaiters
    ELSE lockHolder' = Head(lockWaiters) /\ lockWaiters' = Tail(lockWaiters)
Enqueue(t) == lockWaiters' = Append(lockWaiters, t) /\ UNCHANGED lockHolder

\* ----------------------------------------------------------- error text
\* Error texts are sequences of one-character strings.
UpperCase == <<"A", "B", "C", "D", "E", "F", "G", "H", "I", "J", "K", "L", "M", "N", "O", "P", "Q", "R", "S", "T", "U", "V", "W", "X", "Y", "Z">>
LowerCase == <<"a", "b", "c", "d", "e", "f", "g", "h", "i", "j", "k", "l", "m", "n", "o", "p", "q", "r", "s", "t", "u", "v", "w", "x", "y", "z">>

\* str.lower()
lower(s) ==
    [i \in 1..Len(s) |->
        IF \E k \in 1..Len(UpperCase) : UpperCase[k] = s[i]
        THEN LowerCase[CHOOSE k \in 1..Len(UpperCase) : UpperCase[k] = s[i]]
        ELSE s[i]]

\* `sub in s`
Contains(s, sub) ==
    \E i \in 1..(Len(s) - Len(sub) + 1) : SubSeq(s, i, i + Len(sub) - 1) = sub

\* `error_message[:100]` of _handle_website_error
DetailLimit == 100

\* Variant of ErrorKind: no `.lower()`.
ErrorKindCaseSensitive(error_message) ==
    IF \/ Contains(error_message, <<"T", "i", "m", "e", "o", "u", "t">>)
       \/ Contains(error_message, <<"t", "i", "m", "e", "o", "u", "t">>)
    THEN "timeout" ELSE "error"

\* `if "Timeout" in error_message or "timeout" in error_message.lower()`
ErrorKind(error_message) ==
    IF \/ Contains(error_message, <<"T", "i", "m", "e", "o", "u", "t">>)
       \/ Contains(lower(error_message), <<"t", "i", "m", "e", "o", "u", "t">>)
    THEN "timeout" ELSE "error"

\* The error_message of the `except` of _capture_single_screenshot:
\* _handle_website_timeout(url), a fixed text, or _handle_website_error(url,
\* error_message), a fixed text around `error_message[:100]`.
ErrorMessage(error_message) ==
    IF ErrorKind(error_message) = "timeout"
    THEN [kind |-> "timeout", detail |-> <<>>]
    ELSE [kind |-> "access_error",
          detail |-> SubSeq(error_message, 1,
                            IF Len(error_message) < DetailLimit
                            THEN Len(error_message) ELSE DetailLimit)]

\* str(e) of the RuntimeError of acquire
PoolBusyText ==
    <<"A", "l", "l", " ", "C", "h", "r", "o", "m", "i", "u", "m", " ", "b", "r", "o", "w", "s", "e", "r", "s", " ", "a", "n", "d", " ", "t", "a", "b", "s", " ", "a", "r", "e", " ", "b", "u", "s", "y", ".", " ", "P", "l", "e", "a", "s", "e", " ", "t", "r", "y", " ", "a", "g", "a", "i", "n", " ", "l", "a", "t", "e", "r", ".">>

\* ------------------------------------------------------------ returning
\* An exception of the driver, by whether its text says "timeout".
Kinds == {"timeout", "error"}

\* The analyze call of the task is over: the handler has its outcome.
FlowEnd(out) == [NoTask EXCEPT !.pc = "done", !.outcome = out]

\* Variant of Returned: acquire is awaited before the `try` of the capture, its
\* exception leaves analyze_website.
ReturnedOutsideTry(s0, r, p) ==
    LET s == [s0 EXCEPT !.result = r, !.swallowed = s0.swallowed /\ ~s0.inFlow] IN
    IF ~s.inFlow
    THEN [NoTask EXCEPT !.op = s.op, !.swallowed = s.swallowed,
                        !.result = IF r \in Kinds THEN "error" ELSE r]
    ELSE IF s.op = "start"
         THEN IF r = "ok" THEN [s EXCEPT !.pc = "acq_call"] ELSE FlowEnd("error")
    ELSE IF s.op = "acquire"
         THEN IF r = "ok" THEN [s EXCEPT !.pc = "cap_config", !.page = p]
              ELSE FlowEnd("error")
    ELSE IF s.timedOut THEN FlowEnd("timeout")
    ELSE [s EXCEPT !.pc = "cap_done"]

\* The task's record s0 once its pool call has ended with outcome r ("ok",
\* "exhausted": the RuntimeError of acquire, "timeout"/"error": another exception,
\* by its text) and, for acquire, the page p. A direct caller is idle again, with
\* what the call returned; in a flow the code that awaited the call runs on to its next await:
\*   start    _capture_screenshots goes on to the desktop capture (an exception
\*            leaves analyze_website);
\*   acquire  _capture_single_screenshot configures the page, or its `except`
\*            records the failure (page is None: the `finally` releases nothing);
\*            src/apps/agent/analyzer.py awaits acquire() before its `try`: the
\*            exception leaves analyze_website;
\*   release  the `finally` is over: the capture returns, or the pending
\*            CancelledError leaves analyze_website.
Returned(s0, r, p) ==
    LET s == [s0 EXCEPT !.result = r, !.swallowed = s0.swallowed /\ ~s0.inFlow] IN
    IF ~s.inFlow
    THEN [NoTask EXCEPT !.op = s.op, !.swallowed = s.swallowed,
                        !.result = IF r \in Kinds THEN "error" ELSE r]
    ELSE IF s.op = "start"
         THEN IF r = "ok" THEN [s EXCEPT !.pc = "acq_call"] ELSE FlowEnd("error")
    ELSE IF s.op = "acquire"
         THEN IF r = "ok" THEN [s EXCEPT !.pc = "cap_config", !.page = p]
              ELSE IF s.old THEN FlowEnd("error")
              ELSE [s EXCEPT !.pc = "cap_done", !.capRes = r,
                             !.message = IF r = "exhausted"
                                         THEN ErrorMessage(PoolBusyText) ELSE @]
    ELSE IF s.timedOut THEN FlowEnd("timeout")
    ELSE [s EXCEPT !.pc = "cap_done"]

Init ==
    /\ browsers = <<>>
    /\ playwright = 0
    /\ lockHolder = 0
    /\ lockWaiters = <<>>
    /\ closedB = {}
    /\ liveDrivers = {}
    /\ nextPage = 1
    /\ nextBrowser = 1
    /\ fs = [p \in Paths |-> NoFile]
    /\ task = [t \in Tasks |-> NoTask]

\* ---------------------------------------------------------------- start
\* ChromiumPool.start: `if not self.playwright:` then await the driver startup.
\* Called directly (startup_event, health_check) or by _capture_screenshots.
StartCall(t) ==
    /\ task[t].pc = "idle"
    /\ LET s == [NoTask EXCEPT !.op = "start"] IN
       IF playwright # 0
       THEN Set(t, [s EXCEPT !.result = "ok"])
       ELSE Set(t, [s EXCEPT !.pc = "start_await"])
    /\ UNCHANGED <<poolVars, lockVars, envVars, fs>>

\* `self.playwright = await async_playwright().start()` returns a new driver.
StartDone(t) ==
    /\ task[t].pc = "start_await"
    /\ NewDriver # 0
    /\ playwright' = NewDriver
    /\ liveDrivers' = liveDrivers \cup {NewDriver}
    /\ Set(t, Returned(task[t], "ok", 0))
    /\ UNCHANGED <<browsers, lockVars, closedB, nextPage, nextBrowser, fs>>

\* The driver startup raises.
StartFail(t) ==
    /\ task[t].pc = "start_await"
    /\ Set(t, Returned(task[t], "error", 0))
    /\ UNCHANGED <<poolVars, lockVars, envVars, fs>>

\* -------------------------------------------------------------- acquire
\* Variant of AcqBody: the launch test is `len(self.browsers) < self.max_browsers - 1`.
AcqBodyEarlyFull(t, s) ==
    LET i == FirstWithRoom IN
    IF i # 0
    THEN Set(t, [s EXCEPT !.pc = "acq_newpage", !.curB = browsers[i].b]) /\ Hold(t)
    ELSE IF Len(browsers) < max_browsers - 1
    THEN IF playwright # 0
         THEN Set(t, [s EXCEPT !.pc = "acq_launch"]) /\ Hold(t)
         ELSE Set(t, Returned(s, "error", 0)) /\ Unlock
    ELSE Set(t, Returned(s, "exhausted", 0)) /\ Unlock

\* The body of acquire up to its first await, run with the lock owned: scan for a
\* browser with a free tab slot and await its new_page(); else, below max_browsers,
\* await the launch of a new browser (self.playwright.chromium raises
\* AttributeError when the driver is None); else raise the RuntimeError.
AcqBody(t, s) ==
    LET i == FirstWithRoom IN
    IF i # 0
    THEN Set(t, [s EXCEPT !.pc = "acq_newpage", !.curB = browsers[i].b]) /\ Hold(t)
    ELSE IF Len(browsers) < max_browsers
    THEN IF playwright # 0
         THEN Set(t, [s EXCEPT !.pc = "acq_launch"]) /\ Hold(t)
         ELSE Set(t, Returned(s, "error", 0)) /\ Unlock
    ELSE Set(t, Returned(s, "exhausted", 0)) /\ Unlock

\* acquire() is called by the task whose record is s0: `async with self.lock`
\* enters at once or queues.
AcqEnter(t, s0) ==
    LET s == [s0 EXCEPT !.op = "acquire", !.result = "none", !.page = 0,
                        !.curB = 0, !.swallowed = FALSE] IN
    IF LockFree
    THEN AcqBody(t, s)
    ELSE Set(t, [s EXCEPT !.pc = "acq_wait"]) /\ Enqueue(t)

\* A direct call of acquire().
AcqCall(t) ==
    /\ task[t].pc = "idle"
    /\ AcqEnter(t, task[t])
    /\ UNCHANGED <<poolVars, envVars, fs>>

\* The lock was handed to the waiting acquire.
AcqResume(t) ==
    /\ task[t].pc = "acq_wait"
    /\ lockHolder = t
    /\ AcqBody(t, task[t])
    /\ UNCHANGED <<poolVars, envVars, fs>>

\* Variant of AcqNewPageDone: the page is appended to every browser with a free slot.
AcqNewPageDoneEverywhere(t) ==
    /\ task[t].pc = "acq_newpage"
    /\ task[t].curB \notin closedB
    /\ nextPage <= MaxPageIds
    /\ browsers' = [i \in 1..Len(browsers) |->
                       IF Len(browsers[i].pages) < max_tabs_per_browser
                       THEN [browsers[i] EXCEPT !.pages = Append(@, nextPage)]
                       ELSE browsers[i]]
    /\ nextPage' = nextPage + 1
    /\ Set(t, Returned(task[t], "ok", nextPage))
    /\ Unlock
    /\ UNCHANGED <<playwright, closedB, liveDrivers, nextBrowser, fs>>

\* `page = await browser.new_page(); pages.append(page); return browser, page`
AcqNewPageDone(t) ==
    /\ task[t].pc = "acq_newpage"
    /\ task[t].curB \notin closedB
    /\ nextPage <= MaxPageIds
    /\ browsers' = [browsers EXCEPT ![IndexOfB(task[t].curB)].pages = Append(@, nextPage)]
    /\ nextPage' = nextPage + 1
    /\ Set(t, Returned(task[t], "ok", nextPage))
    /\ Unlock
    /\ UNCHANGED <<playwright, closedB, liveDrivers, nextBrowser, fs>>

\* new_page() raises (k: whether the text says timeout; a closed browser only
\* raises): acquire raises.
AcqNewPageFail(t, k) ==
    /\ task[t].pc = "acq_newpage"
    /\ Set(t, Returned(task[t], k, 0))
    /\ Unlock
    /\ UNCHANGED <<poolVars, envVars, fs>>

\* `browser = await self.playwright.chromium.launch(...)`
AcqLaunchDone(t) ==
    /\ task[t].pc = "acq_launch"
    /\ nextBrowser <= MaxBrowserIds
    /\ nextBrowser' = nextBrowser + 1
    /\ Set(t, [task[t] EXCEPT !.pc = "acq_firstpage", !.curB = nextBrowser])
    /\ UNCHANGED <<poolVars, lockVars, closedB, liveDrivers, nextPage, fs>>

\* Variant of AcqLaunchFail: the exception leaves acquire with the lock still owned.
AcqLaunchFailHolding(t, k) ==
    /\ task[t].pc = "acq_launch"
    /\ Set(t, Returned(task[t], k, 0))
    /\ UNCHANGED <<poolVars, lockVars, envVars, fs>>

AcqLaunchFail(t, k) ==
    /\ task[t].pc = "acq_launch"
    /\ Set(t, Returned(task[t], k, 0))
    /\ Unlock
    /\ UNCHANGED <<poolVars, envVars, fs>>

\* Variant of AcqFirstPageDone: the page is returned with the lock still owned.
AcqFirstPageDoneHolding(t) ==
    /\ task[t].pc = "acq_firstpage"
    /\ nextPage <= MaxPageIds
    /\ browsers' = Append(browsers, [b |-> task[t].curB, pages |-> <<nextPage>>])
    /\ nextPage' = nextPage + 1
    /\ Set(t, Returned(task[t], "ok", nextPage))
    /\ UNCHANGED <<playwright, lockVars, closedB, liveDrivers, nextBrowser, fs>>

\* `page = await browser.new_page(); self.browsers.append((browser, [page]))`
AcqFirstPageDone(t) ==
    /\ task[t].pc = "acq_firstpage"
    /\ nextPage <= MaxPageIds
    /\ browsers' = Append(browsers, [b |-> task[t].curB, pages |-> <<nextPage>>])
    /\ nextPage' = nextPage + 1
    /\ Set(t, Returned(task[t], "ok", nextPage))
    /\ Unlock
    /\ UNCHANGED <<playwright, closedB, liveDrivers, nextBrowser, fs>>

\* The first new_page() raises: the launched browser is not appended.
AcqFirstPageFail(t, k) ==
    /\ task[t].pc = "acq_firstpage"
    /\ Set(t, Returned(task[t], k, 0))
    /\ Unlock
    /\ UNCHANGED <<poolVars, envVars, fs>>

\* -------------------------------------------------------------- release
\* The body of release up to its first await: find the browser whose list holds
\* the page and await page.close(); a page in no list: the loop ends, return.
\* Variant of RelBody: a page that is in no list makes release raise.
RelBodyRaising(t, s) ==
    LET i == FirstHolding(s.relPage) IN
    IF i # 0
    THEN Set(t, [s EXCEPT !.pc = "rel_pageclose", !.curB = browsers[i].b]) /\ Hold(t)
    ELSE Set(t, Returned(s, "error", 0)) /\ Unlock

RelBody(t, s) ==
    LET i == FirstHolding(s.relPage) IN
    IF i # 0
    THEN Set(t, [s EXCEPT !.pc = "rel_pageclose", !.curB = browsers[i].b]) /\ Hold(t)
    ELSE Set(t, Returned(s, "ok", 0)) /\ Unlock

\* release(p) is called by the task whose record is s0: `async with self.lock`
\* enters at once or queues.
RelEnter(t, s0, p) ==
    LET s == [s0 EXCEPT !.op = "release", !.result = "none", !.relPage = p,
                        !.curB = 0, !.swallowed = FALSE] IN
    IF LockFree
    THEN RelBody(t, s)
    ELSE Set(t, [s EXCEPT !.pc = "rel_wait"]) /\ Enqueue(t)

\* A direct call of release(p), with any page handed out so far.
RelCall(t, p) ==
    /\ task[t].pc = "idle"
    /\ p \in 1..(nextPage - 1)
    /\ RelEnter(t, task[t], p)
    /\ UNCHANGED <<poolVars, envVars, fs>>

RelResume(t) ==
    /\ task[t].pc = "rel_wait"
    /\ lockHolder = t
    /\ RelBody(t, task[t])
    /\ UNCHANGED <<poolVars, envVars, fs>>

\* Variant of RelPageClosed: the page is closed but `pages.remove(page)` is missing.
RelPageClosedNoRemove(t, ok) ==
    /\ task[t].pc = "rel_pageclose"
    /\ Set(t, Returned([task[t] EXCEPT !.swallowed = @ \/ ~ok], "ok", 0))
    /\ Unlock
    /\ UNCHANGED <<poolVars, envVars, fs>>

\* Variant of RelPageClosed: no `try` around page.close(), its exception leaves
\* release before `pages.remove(page)`.
RelPageClosedRaising(t, ok) ==
    /\ task[t].pc = "rel_pageclose"
    /\ LET i == IndexOfB(task[t].curB)
           left == RemoveFirst(browsers[i].pages, task[t].relPage)
       IN IF ~ok
          THEN Set(t, Returned(task[t], "error", 0)) /\ Unlock /\ UNCHANGED browsers
          ELSE /\ browsers' = [browsers EXCEPT ![i].pages = left]
               /\ IF left = <<>>
                  THEN Set(t, [task[t] EXCEPT !.pc = "rel_browserclose"]) /\ Hold(t)
                  ELSE Set(t, Returned(task[t], "ok", 0)) /\ Unlock
    /\ UNCHANGED <<playwright, envVars, fs>>

\* `try: await page.close() except Exception: pass`, then `pages.remove(page)`;
\* `if not pages:` await browser.close(). ok: page.close() did not raise.
RelPageClosed(t, ok) ==
    /\ task[t].pc = "rel_pageclose"
    /\ LET i == IndexOfB(task[t].curB)
           left == RemoveFirst(browsers[i].pages, task[t].relPage)
           s == [task[t] EXCEPT !.swallowed = @ \/ ~ok]
       IN /\ browsers' = [browsers EXCEPT ![i].pages = left]
          /\ IF left = <<>>
             THEN Set(t, [s EXCEPT !.pc = "rel_browserclose"]) /\ Hold(t)
             ELSE Set(t, Returned(s, "ok", 0)) /\ Unlock
    /\ UNCHANGED <<playwright, envVars, fs>>

\* Variant of RelBrowserClosed: the closed browser stays in self.browsers.
RelBrowserClosedKept(t, ok) ==
    /\ task[t].pc = "rel_browserclose"
    /\ closedB' = closedB \cup {task[t].curB}
    /\ Set(t, Returned([task[t] EXCEPT !.swallowed = @ \/ ~ok], "ok", 0))
    /\ Unlock
    /\ UNCHANGED <<poolVars, liveDrivers, nextPage, nextBrowser, fs>>

\* `try: await browser.close() except Exception: pass`, then
\* `self.browsers.remove((browser, pages))`. ok: browser.close() did not raise.
RelBrowserClosed(t, ok) ==
    /\ task[t].pc = "rel_browserclose"
    /\ closedB' = closedB \cup {task[t].curB}
    /\ browsers' = RemoveFirst(browsers, [b |-> task[t].curB, pages |-> <<>>])
    /\ Set(t, Returned([task[t] EXCEPT !.swallowed = @ \/ ~ok], "ok", 0))
    /\ Unlock
    /\ UNCHANGED <<playwright, liveDrivers, nextPage, nextBrowser, fs>>

\* ---------------------------------------------------------------- close
\* After the loops of close(): `self.browsers.clear()`, then `if self.playwright:`
\* await its stop().
CloseFinish(t, s) ==
    /\ browsers' = <<>>
    /\ IF playwright # 0
       THEN Set(t, [s EXCEPT !.pc = "close_stop", !.curD = playwright]) /\ Hold(t)
       ELSE Set(t, Returned(s, "ok", 0)) /\ Unlock

\* The body of close() up to its first await.
CloseBody(t, s) ==
    IF browsers = <<>>
    THEN CloseFinish(t, s)
    ELSE /\ Set(t, [s EXCEPT !.pc = "close_loop", !.ci = 1, !.cj = 1])
         /\ Hold(t)
         /\ UNCHANGED browsers

\* close() is called (shutdown_event, or any direct caller).
CloseCall(t) ==
    /\ task[t].pc = "idle"
    /\ LET s == [NoTask EXCEPT !.op = "close"] IN
       IF LockFree
       THEN CloseBody(t, s)
       ELSE Set(t, [s EXCEPT !.pc = "close_wait"]) /\ Enqueue(t) /\ UNCHANGED browsers
    /\ UNCHANGED <<playwright, envVars, fs>>

CloseResume(t) ==
    /\ task[t].pc = "close_wait"
    /\ lockHolder = t
    /\ CloseBody(t, task[t])
    /\ UNCHANGED <<playwright, envVars, fs>>

\* One await of the loops returns or raises (swallowed): page cj of browser ci was
\* closed, or, past its last page, browser ci itself.
CloseStep(t, ok) ==
    /\ task[t].pc = "close_loop"
    /\ LET s == [task[t] EXCEPT !.swallowed = @ \/ ~ok]
           e == browsers[s.ci]
       IN IF s.cj <= Len(e.pages)
          THEN /\ Set(t, [s EXCEPT !.cj = @ + 1])
               /\ UNCHANGED <<browsers, lockVars, closedB>>
          ELSE /\ closedB' = closedB \cup {e.b}
               /\ IF s.ci < Len(browsers)
                  THEN /\ Set(t, [s EXCEPT !.ci = @ + 1, !.cj = 1])
                       /\ UNCHANGED <<browsers, lockVars>>
                  ELSE CloseFinish(t, [s EXCEPT !.ci = 0, !.cj = 0])
    /\ UNCHANGED <<playwright, liveDrivers, nextPage, nextBrowser, fs>>

\* `await self.playwright.stop(); self.playwright = None`
CloseStopDone(t) ==
    /\ task[t].pc = "close_stop"
    /\ liveDrivers' = liveDrivers \ {task[t].curD}
    /\ playwright' = 0
    /\ Set(t, Returned(task[t], "ok", 0))
    /\ Unlock
    /\ UNCHANGED <<browsers, closedB, nextPage, nextBrowser, fs>>

\* stop() raises: close() raises, self.playwright keeps the driver.
CloseStopFail(t) ==
    /\ task[t].pc = "close_stop"
    /\ Set(t, Returned(task[t], "error", 0))
    /\ Unlock
    /\ UNCHANGED <<poolVars, envVars, fs>>

\* ----------------------------------------------------- analyze_website
\* POST /analyze: the handler awaits analyzer.analyze_website(url) under
\* asyncio.wait_for; the flow first awaits the Lighthouse audit.
FlowBegin(t) ==
    /\ task[t].pc = "idle"
    /\ Set(t, [NoTask EXCEPT !.inFlow = TRUE, !.pc = "lh"])
    /\ UNCHANGED <<poolVars, lockVars, envVars, fs>>

\* The audit is over for the task whose record is s0: _setup_screenshot_paths,
\* then `await self.chromium_pool.start()` (returns at once on a started pool).
AfterAudit(t, s0) ==
    LET s == [s0 EXCEPT !.device = "desktop", !.op = "start"] IN
    IF playwright # 0
    THEN Set(t, Returned(s, "ok", 0))
    ELSE Set(t, [s EXCEPT !.pc = "start_await", !.result = "none"])

\* _get_lighthouse_data returns; _setup_screenshot_paths;
\* _capture_screenshots awaits chromium_pool.start() and begins the desktop capture.
LhDone(t) ==
    /\ task[t].pc = "lh"
    /\ AfterAudit(t, task[t])
    /\ UNCHANGED <<poolVars, lockVars, envVars, fs>>

\* _capture_single_screenshot starts: `browser, page = await self.chromium_pool.acquire()`
CapBegin(t) ==
    /\ task[t].pc = "acq_call"
    /\ AcqEnter(t, task[t])
    /\ UNCHANGED <<poolVars, envVars, fs>>

TempPath(d) == IF d = "desktop" THEN "temp_desktop" ELSE "temp_mobile"

\* Variant of CapFail: the failure path returns without the `finally`.
CapFailNoRelease(t, r) ==
    /\ Set(t, [task[t] EXCEPT !.pc = "cap_done", !.capRes = r])
    /\ UNCHANGED <<poolVars, lockVars, envVars, fs>>

\* One awaited step of the `try` of _capture_single_screenshot ends with r: "ok",
\* or an exception (by its text). An exception goes to the `except`, which records
\* the failure, and the `finally` calls release(page).
CapFail(t, r) ==
    /\ RelEnter(t, [task[t] EXCEPT !.capRes = r], task[t].page)
    /\ UNCHANGED <<poolVars, envVars, fs>>

\* An awaited step of the `try` raises the exception whose text is the task's
\* `error`: the `except` classifies it and builds the error_message, and the
\* `finally` calls release(page).
CapRaise(t) ==
    /\ task[t].pc \in {"cap_config", "cap_goto", "cap_shot"}
    /\ RelEnter(t, [task[t] EXCEPT !.capRes = ErrorKind(task[t].error),
                                   !.message = ErrorMessage(task[t].error)],
                task[t].page)
    /\ UNCHANGED <<poolVars, envVars, fs>>

\* `await page.set_viewport_size(...)` (and set_extra_http_headers for mobile)
CapConfig(t, r) ==
    /\ task[t].pc = "cap_config"
    /\ IF r = "ok"
       THEN Set(t, [task[t] EXCEPT !.pc = "cap_goto"])
            /\ UNCHANGED <<poolVars, lockVars, envVars, fs>>
       ELSE CapFail(t, r)

\* `await page.goto(url, wait_until="networkidle", timeout=...)`
CapGoto(t, r) ==
    /\ task[t].pc = "cap_goto"
    /\ IF r = "ok"
       THEN Set(t, [task[t] EXCEPT !.pc = "cap_shot"])
            /\ UNCHANGED <<poolVars, lockVars, envVars, fs>>
       ELSE CapFail(t, r)

\* Variant of CapShot: after the screenshot the capture returns without the
\* `finally`, its page stays registered.
CapShotNoRelease(t, r) ==
    /\ task[t].pc = "cap_shot"
    /\ IF r = "ok"
       THEN /\ fs' = [fs EXCEPT ![TempPath(task[t].device)] = <<t, task[t].device>>]
            /\ Set(t, [task[t] EXCEPT !.pc = "cap_done", !.capRes = "ok"])
            /\ UNCHANGED <<poolVars, lockVars, envVars>>
       ELSE CapFail(t, r)

\* `await page.screenshot(path=screenshot_path, full_page=True)`, then
\* `return {"success": True, ...}` through the `finally`.
CapShot(t, r) ==
    /\ task[t].pc = "cap_shot"
    /\ IF r = "ok"
       THEN /\ fs' = [fs EXCEPT ![TempPath(task[t].device)] = <<t, task[t].device>>]
            /\ RelEnter(t, [task[t] EXCEPT !.capRes = "ok"], task[t].page)
            /\ UNCHANGED <<poolVars, envVars>>
       ELSE CapFail(t, r)

\* _handle_screenshot_persistence, on the temp files (sv: save_screenshots):
\* without save, _cleanup_temp_screenshots unlinks both; with save,
\* _save_screenshots_with_names renames desktop then mobile to their final names,
\* and when a rename raises (the file is missing) falls back to the cleanup.
Persisted(f, sv) ==
    IF ~sv
    THEN [f EXCEPT !["temp_desktop"] = NoFile, !["temp_mobile"] = NoFile]
    ELSE IF f["temp_desktop"] = NoFile
    THEN [f EXCEPT !["temp_mobile"] = NoFile]
    ELSE [f EXCEPT !["temp_desktop"] = NoFile, !["temp_mobile"] = NoFile]

\* Variant of CapReturn: no `if not desktop_result["success"]`, the mobile capture
\* starts whatever the desktop capture returned.
CapReturnNoAbort(t) ==
    /\ task[t].pc = "cap_done"
    /\ LET s == task[t]
           copied == IF s.capRes # "ok" /\ fs["temp_desktop"] # NoFile
                     THEN [fs EXCEPT !["temp_mobile"] = fs["temp_desktop"]]
                     ELSE fs
       IN IF s.device = "desktop"
          THEN /\ Set(t, [s EXCEPT !.pc = "acq_call", !.device = "mobile",
                                   !.page = 0, !.capRes = "none"])
               /\ UNCHANGED fs
          ELSE /\ fs' = copied
               /\ IF copied["temp_desktop"] = NoFile \/ copied["temp_mobile"] = NoFile
                  THEN Set(t, FlowEnd("error"))
                  ELSE Set(t, [s EXCEPT !.pc = "grading", !.page = 0, !.capRes = "none",
                                        !.graded = <<copied["temp_desktop"],
                                                     copied["temp_mobile"]>>])
    /\ UNCHANGED <<poolVars, lockVars, envVars>>

\* _capture_single_screenshot returns to _capture_screenshots. Desktop failed:
\* analyze_website returns the error message. Desktop succeeded: the mobile
\* capture starts. After the mobile capture (on its failure shutil.copy2 of the
\* desktop file, errors swallowed) analyze_screenshots opens both files (a missing
\* file raises out of analyze_website) and awaits the model.
CapReturn(t) ==
    /\ task[t].pc = "cap_done"
    /\ LET s == task[t]
           copied == IF s.capRes # "ok" /\ fs["temp_desktop"] # NoFile
                     THEN [fs EXCEPT !["temp_mobile"] = fs["temp_desktop"]]
                     ELSE fs
       IN IF s.device = "desktop"
          THEN /\ IF s.capRes = "ok"
                  THEN Set(t, [s EXCEPT !.pc = "acq_call", !.device = "mobile",
                                        !.page = 0, !.capRes = "none"])
                  ELSE Set(t, [FlowEnd(IF s.capRes = "timeout" THEN "aborted_timeout"
                                                               ELSE "aborted_error")
                                  EXCEPT !.message = s.message])
               /\ UNCHANGED fs
          ELSE /\ fs' = copied
               /\ IF copied["temp_desktop"] = NoFile \/ copied["temp_mobile"] = NoFile
                  THEN Set(t, FlowEnd("error"))
                  ELSE Set(t, [s EXCEPT !.pc = "grading", !.page = 0, !.capRes = "none",
                                        !.graded = <<copied["temp_desktop"],
                                                     copied["temp_mobile"]>>])
    /\ UNCHANGED <<poolVars, lockVars, envVars>>

\* `await self.llm.ainvoke(messages)` returns or raises (swallowed); then
\* _handle_screenshot_persistence, the return to the handler, and its `finally`.
GradeDone(t, ok, sv) ==
    /\ task[t].pc = "grading"
    /\ fs' = Persisted(fs, sv)
    /\ Set(t, FlowEnd("graded"))
    /\ UNCHANGED <<poolVars, lockVars, envVars>>

\* ---------------------------------------------------------- cancellation
\* asyncio.wait_for(..., timeout=300) expires: CancelledError is thrown once into
\* the flow at the await it is suspended in. It is no Exception: no
\* `except Exception` catches it; `finally` blocks and `async with` exits run.
Suspended(t) ==
    task[t].pc \in {"lh", "start_await", "acq_wait", "acq_newpage", "acq_launch",
                    "acq_firstpage", "cap_config", "cap_goto", "cap_shot", "rel_wait",
                    "rel_pageclose", "rel_browserclose", "grading"}

\* A task leaves lock.acquire() by cancellation: it leaves the queue, or, already
\* woken, wakes the next waiter.
LeaveQueue(t) ==
    IF lockHolder = t
    THEN Unlock
    ELSE /\ lockWaiters' = SelectSeq(lockWaiters, LAMBDA x : x # t)
         /\ UNCHANGED lockHolder

\* bc: the cancelled browser.close() had closed the browser.
Cancel(t, bc) ==
    /\ task[t].inFlow
    /\ ~task[t].timedOut
    /\ Suspended(t)
    /\ LET s == task[t] IN
       CASE s.pc \in {"lh", "start_await", "grading"} ->
                /\ Set(t, FlowEnd("timeout"))
                /\ UNCHANGED <<lockVars, closedB>>
         [] s.pc \in {"acq_wait", "rel_wait"} ->
                /\ Set(t, FlowEnd("timeout"))
                /\ LeaveQueue(t)
                /\ UNCHANGED closedB
         [] s.pc \in {"acq_newpage", "acq_launch", "acq_firstpage", "rel_pageclose"} ->
                /\ Set(t, FlowEnd("timeout"))
                /\ Unlock
                /\ UNCHANGED closedB
         [] s.pc = "rel_browserclose" ->
                /\ Set(t, FlowEnd("timeout"))
                /\ Unlock
                /\ closedB' = IF bc THEN closedB \cup {s.curB} ELSE closedB
         [] s.pc \in {"cap_config", "cap_goto", "cap_shot"} ->
                /\ RelEnter(t, [s EXCEPT !.timedOut = TRUE], s.page)
                /\ UNCHANGED closedB
    /\ UNCHANGED <<poolVars, liveDrivers, nextPage, nextBrowser, fs>>

\* -------------------------------------------------------- specification

PoolCall(t) ==
    \/ StartCall(t)
    \/ AcqCall(t)
    \/ \E p \in PageIds : RelCall(t, p)
    \/ CloseCall(t)

PoolInner(t) ==
    \/ StartDone(t)
    \/ StartFail(t)
    \/ AcqResume(t)
    \/ AcqNewPageDone(t)
    \/ \E k \in Kinds : AcqNewPageFail(t, k)
    \/ AcqLaunchDone(t)
    \/ \E k \in Kinds : AcqLaunchFail(t, k)
    \/ AcqFirstPageDone(t)
    \/ \E k \in Kinds : AcqFirstPageFail(t, k)
    \/ RelResume(t)
    \/ \E ok \in BOOLEAN : RelPageClosed(t, ok)
    \/ \E ok \in BOOLEAN : RelBrowserClosed(t, ok)
    \/ CloseResume(t)
    \/ \E ok \in BOOLEAN : CloseStep(t, ok)
    \/ CloseStopDone(t)
    \/ CloseStopFail(t)

FlowStep(t) ==
    \/ FlowBegin(t)
    \/ LhDone(t)
    \/ CapBegin(t)
    \/ \E r \in {"ok"} \cup Kinds : CapConfig(t, r)
    \/ \E r \in {"ok"} \cup Kinds : CapGoto(t, r)
    \/ \E r \in {"ok"} \cup Kinds : CapShot(t, r)
    \/ CapReturn(t)
    \/ \E ok, sv \in BOOLEAN : GradeDone(t, ok, sv)
    \/ \E bc \in BOOLEAN : Cancel(t, bc)

\* The pool used directly by concurrent callers.
NextPool == \E t \in Callers : PoolCall(t) \/ PoolInner(t)

SpecPool == Init /\ [][NextPool]_vars

\* The steps of acquire, release and close after the call: the lock is handed
\* over, an awaited driver call returns or raises.
LockedInner(t) ==
    \/ AcqResume(t)
    \/ AcqNewPageDone(t)
    \/ \E k \in Kinds : AcqNewPageFail(t, k)
    \/ AcqLaunchDone(t)
    \/ \E k \in Kinds : AcqLaunchFail(t, k)
    \/ AcqFirstPageDone(t)
    \/ \E k \in Kinds : AcqFirstPageFail(t, k)
    \/ RelResume(t)
    \/ \E ok \in BOOLEAN : RelPageClosed(t, ok)
    \/ \E ok \in BOOLEAN : RelBrowserClosed(t, ok)
    \/ CloseResume(t)
    \/ \E ok \in BOOLEAN : CloseStep(t, ok)
    \/ CloseStopDone(t)
    \/ CloseStopFail(t)

\* A pool started by startup_event, not used yet.
InitStarted ==
    /\ browsers = <<>>
    /\ playwright = 1
    /\ lockHolder = 0
    /\ lockWaiters = <<>>
    /\ closedB = {}
    /\ liveDrivers = {1}
    /\ nextPage = 1
    /\ nextBrowser = 1
    /\ fs = [p \in Paths |-> NoFile]
    /\ task = [t \in Tasks |-> NoTask]

\* The calls that take the lock, by concurrent callers.
NextLocked ==
    \E t \in Callers :
        \/ AcqCall(t)
        \/ \E p \in PageIds : RelCall(t, p)
        \/ CloseCall(t)
        \/ LockedInner(t)

\* The event loop runs every task that can run: a driver call that was awaited
\* returns or raises, a task the lock was handed to goes on.
SpecPoolLive ==
    InitStarted /\ [][NextLocked]_vars /\ \A t \in Callers : WF_vars(LockedInner(t))

\* The service's own call of the pool: health_check awaits start(),
\* shutdown_event awaits close(). One such call runs beside the flows.
Service == NumFlows + 1
ServiceCall(t) ==
    /\ task[t].op = "none"
    /\ (StartCall(t) \/ CloseCall(t))

\* The HTTP service: analyze flows, a health check (start) or the shutdown (close).
NextFlow ==
    \/ \E t \in Flows : FlowStep(t)
    \/ \E t \in Tasks : PoolInner(t)
    \/ ServiceCall(Service)

SpecFlow == Init /\ [][NextFlow]_vars

\* ------------------------------------------- src/apps/agent (server.py)
\* POST /analyze of server.py: the handler awaits analyze_website(url) of
\* src/apps/agent/analyzer.py directly; the flow first awaits the Lighthouse audit.
AgentBegin(t) ==
    /\ task[t].pc = "idle"
    /\ Set(t, [NoTask EXCEPT !.inFlow = TRUE, !.old = TRUE, !.pc = "lh"])
    /\ UNCHANGED <<poolVars, lockVars, envVars, fs>>

\* analyze_website of src/apps/agent/analyzer.py: the same awaits in the same
\* order (audit, start, acquire, viewport, goto, screenshot, release, model
\* call); no wait_for bounds it.
AgentStep(t) ==
    \/ AgentBegin(t)
    \/ LhDone(t)
    \/ CapBegin(t)
    \/ \E r \in {"ok"} \cup Kinds : CapConfig(t, r)
    \/ \E r \in {"ok"} \cup Kinds : CapGoto(t, r)
    \/ \E r \in {"ok"} \cup Kinds : CapShot(t, r)
    \/ CapReturn(t)
    \/ \E ok, sv \in BOOLEAN : GradeDone(t, ok, sv)

\* The pool with n pages registered by requests that stay in their navigation:
\* acquire fills the browsers in list order.
OtherPages(n) ==
    [i \in 1..((n + max_tabs_per_browser - 1) \div max_tabs_per_browser) |->
        [b |-> MaxBrowserIds + i,
         pages |-> [j \in 1..(IF i * max_tabs_per_browser <= n
                              THEN max_tabs_per_browser
                              ELSE n - (i - 1) * max_tabs_per_browser) |->
                       MaxPageIds + (i - 1) * max_tabs_per_browser + j]]]

\* Pages held by the other requests when the flows arrive.
OtherLoads == {0, Capacity - 2, Capacity - 1}

\* The service before the pool is started (no request yet), or started by
\* startup_event with other requests holding pages.
InitAgent ==
    /\ lockHolder = 0
    /\ lockWaiters = <<>>
    /\ closedB = {}
    /\ nextPage = 1
    /\ nextBrowser = 1
    /\ fs = [p \in Paths |-> NoFile]
    /\ task = [t \in Tasks |-> NoTask]
    /\ \/ browsers = <<>> /\ playwright = 0 /\ liveDrivers = {}
       \/ \E n \in OtherLoads :
             browsers = OtherPages(n) /\ playwright = 1 /\ liveDrivers = {1}

NextAgent ==
    \/ \E t \in Flows : AgentStep(t)
    \/ \E t \in Tasks : PoolInner(t)
    \/ ServiceCall(Service)

SpecAgent == InitAgent /\ [][NextAgent]_vars

\* --------------------------------- _capture_single_screenshot: the `except`
\* Texts of the exceptions a capture step raises: the navigation timeout of the
\* driver, upper and mixed case, a network error, the empty text, and texts of
\* DetailLimit and MaxErrorLen characters, one with "timeout" after the first
\* DetailLimit.
MaxErrorLen == 120
LongText(n) == [i \in 1..n |-> <<"0", "1", "2", "3", "4", "5", "6", "7", "8", "9">>[(i % 10) + 1]]
ErrorTexts ==
    {<<"T", "i", "m", "e", "o", "u", "t", " ", "3", "0", "0", "0", "0", "m", "s", " ", "e", "x", "c", "e", "e", "d", "e", "d", ".">>,
     <<"R", "E", "Q", "U", "E", "S", "T", " ", "T", "I", "M", "E", "O", "U", "T">>,
     <<"p", "a", "g", "e", ".", "g", "o", "t", "o", ":", " ", "T", "i", "m", "e", "O", "u", "t">>,
     <<"n", "e", "t", ":", ":", "E", "R", "R", "_", "C", "O", "N", "N", "E", "C", "T", "I", "O", "N", "_", "T", "I", "M", "E", "D", "_", "O", "U", "T">>,
     <<>>,
     LongText(DetailLimit),
     LongText(MaxErrorLen),
     LongText(DetailLimit) \o <<" ", "t", "h", "e", "n", " ", "t", "i", "m", "e", "o", "u", "t">>,
     PoolBusyText}

\* The awaits of the desktop capture of one request, whose page.* calls return
\* or raise the exception of the request's `error`.
ClassifyStep(t) ==
    \/ CapBegin(t)
    \/ AcqNewPageDone(t)
    \/ AcqLaunchDone(t)
    \/ AcqFirstPageDone(t)
    \/ CapConfig(t, "ok")
    \/ CapGoto(t, "ok")
    \/ CapRaise(t)
    \/ \E ok \in BOOLEAN : RelPageClosed(t, ok)
    \/ \E ok \in BOOLEAN : RelBrowserClosed(t, ok)
    \/ CapReturn(t)

\* A request about to acquire its desktop page on a started pool in which other
\* requests hold no page, some pages, or all pages.
InitClassify ==
    /\ lockHolder = 0
    /\ lockWaiters = <<>>
    /\ closedB = {}
    /\ nextPage = 1
    /\ nextBrowser = 1
    /\ playwright = 1
    /\ liveDrivers = {1}
    /\ fs = [p \in Paths |-> NoFile]
    /\ \E n \in OtherLoads \cup {Capacity} : browsers = OtherPages(n)
    /\ \E e \in ErrorTexts :
          task = [t \in Tasks |->
                    IF t = 1
                    THEN [NoTask EXCEPT !.pc = "acq_call", !.inFlow = TRUE,
                                        !.op = "start", !.result = "ok",
                                        !.device = "desktop", !.error = e]
                    ELSE NoTask]

NextClassify == \E t \in Flows : ClassifyStep(t)

SpecClassify == InitClassify /\ [][NextClassify]_vars

\* ------------------------------------------------- get_lighthouse_metrics
\* asyncio.wait_for(analyzer.analyze_website(url), timeout=300) of the handler
HandlerTimeout == 300
\* config.lighthouse_timeout
lighthouse_timeout == 300
\* `asyncio.wait_for(process.communicate(), timeout=10)` of the `docker info` check
DockerInfoTimeout == 10
\* config.auto_start_docker
auto_start_docker == TRUE

\* How `docker info` ends: exit code 0, another exit code, the wait_for expires,
\* the executable is missing (FileNotFoundError), spawning raises another OSError.
CheckOutcomes == {"running", "nonzero", "timeout", "missing", "oserror"}
\* How the audit command ends when it is not cut by its timeout: JSON on stdout,
\* another exit code, output that is no JSON, empty output, spawning raises.
AuditOutcomes == {"ok", "nonzero", "malformed", "empty", "oserror"}
\* Seconds the check, the start attempts and the audit command need.
CheckTimes == {1, DockerInfoTimeout}
StartTimes == {15, 60}
AuditTimes == {60, lighthouse_timeout - 1, 2 * lighthouse_timeout}

\* POST /analyze begins: the handler of main.py awaits analyze_website under
\* wait_for, the one of server.py (old) awaits it directly; get_lighthouse_metrics
\* awaits _ensure_docker_running, which spawns `docker info`.
AuditBegin(t, o) ==
    /\ task[t].pc = "idle"
    /\ Set(t, [NoTask EXCEPT !.inFlow = TRUE, !.old = o, !.pc = "lh_check"])
    /\ UNCHANGED <<poolVars, lockVars, envVars, fs>>

\* get_lighthouse_metrics returns {"available": False}.
Unavailable(t, s) == AfterAudit(t, [s EXCEPT !.lh = "unavailable"])

\* `result = await self._run_lighthouse_audit(url)` begins a command needing a seconds.
AuditStart(t, s, a) == Set(t, [s EXCEPT !.pc = "lh_audit", !.dur = a])

\* The `docker info` check ends after d seconds with outcome o. Exit code 0:
\* the audit command is started. TimeoutError and FileNotFoundError are caught
\* and, like another exit code, lead to the start attempts (auto_start_docker)
\* or to `return False`. Any other exception leaves _ensure_docker_running and
\* get_lighthouse_metrics, which awaits it before its `try`: _get_lighthouse_data
\* catches it; src/apps/agent/analyzer.py calls get_lighthouse_metrics directly.
LhCheck(t, o, d, a) ==
    /\ task[t].pc = "lh_check"
    /\ (o = "timeout") <=> (d = DockerInfoTimeout)
    /\ task[t].old \/ task[t].clock + d < HandlerTimeout
    /\ LET s == [task[t] EXCEPT !.clock = @ + d] IN
       CASE o = "running" -> AuditStart(t, s, a)
         [] o = "oserror" -> IF s.old THEN Set(t, FlowEnd("error"))
                             ELSE AfterAudit(t, [s EXCEPT !.lh = "raised"])
         [] OTHER -> IF auto_start_docker
                     THEN Set(t, [s EXCEPT !.pc = "lh_autostart"])
                     ELSE Unavailable(t, s)
    /\ UNCHANGED <<poolVars, lockVars, envVars, fs>>

\* The start attempts of _ensure_docker_running end after d seconds: a later
\* `docker info` exits with 0 (`return True`), or none does; every exception in
\* them is caught (`return False`).
LhAutoStart(t, ok, d, a) ==
    /\ task[t].pc = "lh_autostart"
    /\ task[t].old \/ task[t].clock + d < HandlerTimeout
    /\ LET s == [task[t] EXCEPT !.clock = @ + d] IN
       IF ok THEN AuditStart(t, s, a) ELSE Unavailable(t, s)
    /\ UNCHANGED <<poolVars, lockVars, envVars, fs>>

\* Seconds until `wait_for(process.communicate(), timeout=lighthouse_timeout)`
\* returns or raises.
AuditWait(s) == IF s.dur < lighthouse_timeout THEN s.dur ELSE lighthouse_timeout

\* The wait_for of the handler, begun before the one of the audit, expires
\* first: CancelledError leaves analyze_website.
HandlerExpires(s) == ~s.old /\ s.clock + AuditWait(s) >= HandlerTimeout

\* _run_lighthouse_audit ends: cut by its timeout (TimeoutError caught, None),
\* or with outcome o: parsed JSON is returned and get_lighthouse_metrics builds
\* the record with available True; every other outcome is None or a caught
\* exception, and the record is {"available": False}.
LhAudit(t, o) ==
    /\ task[t].pc = "lh_audit"
    /\ ~HandlerExpires(task[t])
    /\ LET s == [task[t] EXCEPT !.clock = @ + AuditWait(task[t])] IN
       IF s.dur >= lighthouse_timeout
       THEN Unavailable(t, s)
       ELSE IF o = "ok"
       THEN AfterAudit(t, [s EXCEPT !.lh = "available"])
       ELSE Unavailable(t, s)
    /\ UNCHANGED <<poolVars, lockVars, envVars, fs>>

\* The handler's wait_for expires while the audit command runs: the handler
\* raises AnalysisError TIMEOUT_ERROR.
AuditExpire(t) ==
    /\ task[t].pc = "lh_audit"
    /\ HandlerExpires(task[t])
    /\ Set(t, FlowEnd("timeout"))
    /\ UNCHANGED <<poolVars, lockVars, envVars, fs>>

AuditStep(t) ==
    \/ \E o \in BOOLEAN : AuditBegin(t, o)
    \/ \E o \in CheckOutcomes, d \in CheckTimes, a \in AuditTimes : LhCheck(t, o, d, a)
    \/ \E ok \in BOOLEAN, d \in StartTimes, a \in AuditTimes : LhAutoStart(t, ok, d, a)
    \/ \E o \in AuditOutcomes : LhAudit(t, o)
    \/ AuditExpire(t)

\* The audit stage of concurrent analyze calls, up to the start of the capture.
NextAudit == \E t \in Flows : AuditStep(t)

SpecAudit == InitAgent /\ [][NextAudit]_vars

\* ------------------------------------------------ _ensure_docker_running
\* `for i in range(12)`
MaxPolls == 12
Platforms == {"darwin", "linux", "other"}
\* How a `docker info` run after a start command ends.
ProbeOutcomes == {"running", "nonzero", "timeout", "oserror"}

\* _ensure_docker_running ends for the task whose record is s: `return True`
\* (the audit command, needing a seconds, is started), `return False`
\* ({"available": False}), or an exception, which get_lighthouse_metrics lets through.
DockerReturn(t, s, ret, a) ==
    LET r == [s EXCEPT !.dk.ret = ret] IN
    IF ret = "true" THEN AuditStart(t, r, a)
    ELSE IF ret = "false" THEN Unavailable(t, r)
    ELSE AfterAudit(t, [r EXCEPT !.lh = "raised"])

\* The Linux branch after its systemctl part: the service command when
\* /usr/sbin/service or /sbin/service exists, else `return False`.
AfterSystemctl(t, s, a) ==
    IF s.dk.service THEN Set(t, [s EXCEPT !.pc = "dk_service"])
    ELSE DockerReturn(t, s, "false", a)

\* The initial `docker info` ends with outcome o. Exit code 0: `return True`.
\* TimeoutError and FileNotFoundError are caught; any other exception leaves the
\* call. Then `if not self.config.auto_start_docker: return False`, else the
\* branch of sys.platform: Docker.app is opened when it exists (macOS), the
\* systemctl and service commands are tried when they exist (Linux); when
\* nothing applies, `return False`.
DockerCheck(t, o, a) ==
    /\ task[t].pc = "dk_check"
    /\ LET s == [task[t] EXCEPT !.dk.last = o] IN
       CASE o = "running" -> DockerReturn(t, s, "true", a)
         [] o = "oserror" -> DockerReturn(t, s, "raised", a)
         [] OTHER ->
              IF ~s.dk.auto THEN DockerReturn(t, s, "false", a)
              ELSE IF s.dk.platform = "darwin" /\ s.dk.app
              THEN Set(t, [s EXCEPT !.pc = "dk_open"])
              ELSE IF s.dk.platform = "linux" /\ s.dk.systemctl
              THEN Set(t, [s EXCEPT !.pc = "dk_systemctl"])
              ELSE IF s.dk.platform = "linux"
              THEN AfterSystemctl(t, s, a)
              ELSE DockerReturn(t, s, "false", a)
    /\ UNCHANGED <<poolVars, lockVars, envVars, fs>>

\* `open /Applications/Docker.app` is spawned and awaited: the polling loop
\* begins with its first sleep; a spawn that raises goes to the outer `except`.
DockerOpen(t, ok, a) ==
    /\ task[t].pc = "dk_open"
    /\ LET s == [task[t] EXCEPT !.dk.starts = @ + 1] IN
       IF ok THEN Set(t, [s EXCEPT !.pc = "dk_poll", !.dk.i = 0])
       ELSE DockerReturn(t, s, "false", a)
    /\ UNCHANGED <<poolVars, lockVars, envVars, fs>>

\* One round of `for i in range(12)`: sleep, `docker info`; exit code 0 returns
\* True; another exit code or any exception goes on to the next round; after the
\* last round, `return False`.
DockerPoll(t, o, a) ==
    /\ task[t].pc = "dk_poll"
    /\ LET s == [task[t] EXCEPT !.dk.probes = @ + 1, !.dk.last = o, !.dk.i = @ + 1] IN
       IF o = "running" THEN DockerReturn(t, s, "true", a)
       ELSE IF s.dk.i < MaxPolls THEN Set(t, s)
       ELSE DockerReturn(t, s, "false", a)
    /\ UNCHANGED <<poolVars, lockVars, envVars, fs>>

\* `systemctl start docker` (with sudo when the socket is not writable), its
\* exceptions swallowed; then the sleep before the check.
DockerSystemctl(t, ok) ==
    /\ task[t].pc = "dk_systemctl"
    /\ Set(t, [task[t] EXCEPT !.pc = "dk_sysprobe", !.dk.starts = @ + 1])
    /\ UNCHANGED <<poolVars, lockVars, envVars, fs>>

\* The `docker info` after systemctl: exit code 0 returns True; anything else,
\* exceptions included, goes on to the service command.
DockerSysProbe(t, o, a) ==
    /\ task[t].pc = "dk_sysprobe"
    /\ LET s == [task[t] EXCEPT !.dk.probes = @ + 1, !.dk.last = o] IN
       IF o = "running" THEN DockerReturn(t, s, "true", a)
       ELSE AfterSystemctl(t, s, a)
    /\ UNCHANGED <<poolVars, lockVars, envVars, fs>>

\* `service docker start`: when it raises (its timeout included) the `except`
\* skips the check, and `return False` follows.
DockerService(t, ok, a) ==
    /\ task[t].pc = "dk_service"
    /\ LET s == [task[t] EXCEPT !.dk.starts = @ + 1] IN
       IF ok THEN Set(t, [s EXCEPT !.pc = "dk_svcprobe"])
       ELSE DockerReturn(t, s, "false", a)
    /\ UNCHANGED <<poolVars, lockVars, envVars, fs>>

\* The `docker info` after the service command.
DockerSvcProbe(t, o, a) ==
    /\ task[t].pc = "dk_svcprobe"
    /\ LET s == [task[t] EXCEPT !.dk.probes = @ + 1, !.dk.last = o] IN
       DockerReturn(t, s, IF o = "running" THEN "true" ELSE "false", a)
    /\ UNCHANGED <<poolVars, lockVars, envVars, fs>>

DockerStep(t) ==
    \E a \in AuditTimes :
        \/ \E o \in CheckOutcomes : DockerCheck(t, o, a)
        \/ \E ok \in BOOLEAN : DockerOpen(t, ok, a)
        \/ \E o \in ProbeOutcomes : DockerPoll(t, o, a)
        \/ \E ok \in BOOLEAN : DockerSystemctl(t, ok)
        \/ \E o \in ProbeOutcomes : DockerSysProbe(t, o, a)
        \/ \E ok \in BOOLEAN : DockerService(t, ok, a)
        \/ \E o \in ProbeOutcomes : DockerSvcProbe(t, o, a)

\* A request at the start of its audit, on a started pool: the configuration
\* and the host it runs on.
InitDocker ==
    /\ browsers = <<>>
    /\ playwright = 1
    /\ lockHolder = 0
    /\ lockWaiters = <<>>
    /\ closedB = {}
    /\ liveDrivers = {1}
    /\ nextPage = 1
    /\ nextBrowser = 1
    /\ fs = [p \in Paths |-> NoFile]
    /\ \E au \in BOOLEAN, pf \in Platforms, ap \in BOOLEAN, sc \in BOOLEAN, sv \in BOOLEAN :
          task = [t \in Tasks |->
                    IF t = 1
                    THEN [NoTask EXCEPT !.pc = "dk_check", !.inFlow = TRUE,
                                        !.dk = [NoDocker EXCEPT !.auto = au, !.platform = pf,
                                                                !.app = ap, !.systemctl = sc,
                                                                !.service = sv]]
                    ELSE NoTask]

NextDocker == \E t \in Flows : DockerStep(t)

SpecDocker == InitDocker /\ [][NextDocker]_vars

\* ---------------------------------------------------- analyze_screenshots
\* Times are in tenths of a second. config.load_time_threshold (3.0 s),
\* config.fcp_threshold (2.5 s), config.performance_score_threshold.
load_time_threshold == 30
fcp_threshold == 25
performance_score_threshold == 70

\* Measured load times, audit figures, and what the model call does: it raises,
\* or returns text (here its lines, after strip()).
LoadTimes == {20, load_time_threshold, load_time_threshold + 1, 45}
FcpValues == {None, 20, fcp_threshold, fcp_threshold + 1}
ScoreValues ==
    {None, 45, performance_score_threshold - 1, performance_score_threshold, 90}
AuditRecords ==
    {NoAudit} \cup [available : {TRUE}, fcp_seconds : FcpValues,
                    performance_score : ScoreValues]
LlmReplies ==
    {NoReply} \cup [ok : {TRUE}, lines : {<<>>, <<"R2">>, <<"R1", "", "R3">>}]

\* Variant of actual_load_time: always the time the capture measured.
actual_load_time_measured(load_time, lighthouse_data) == load_time

\* `actual_load_time = lighthouse_data.get("fcp_seconds", load_time)` with an
\* available audit (the key is always in such a record, unset or not), else
\* `actual_load_time = load_time`.
actual_load_time(load_time, lighthouse_data) ==
    IF lighthouse_data.available THEN lighthouse_data.fcp_seconds ELSE load_time

\* AIScreenshotAnalyzer.analyze_screenshots after the two files are read. With an
\* available audit the prompt formats fcp_seconds with `:.1f`, which raises on
\* None, before the `try`. The model call returns its text, or raises and the
\* `except` returns "AI analysis not available".
analyze_screenshots(load_time, lighthouse_data, reply) ==
    IF lighthouse_data.available /\ lighthouse_data.fcp_seconds = None
    THEN [raised |-> TRUE, lines |-> <<>>]
    ELSE IF reply.ok
    THEN [raised |-> FALSE, lines |-> reply.lines]
    ELSE [raised |-> FALSE, lines |-> <<"AI analysis not available">>]

\* The handler: `[line.strip() for line in results.split("\n") if line.strip()]`
IssuesList(lines) == SelectSeq(lines, LAMBDA l : l # "")

\* analyze_screenshots returns to analyze_website: _handle_screenshot_persistence
\* (sv: save_screenshots), and the handler builds issues_list; or it raises out
\* of analyze_website.
GradeReturn(t, sv) ==
    /\ task[t].pc = "grading"
    /\ LET r == analyze_screenshots(task[t].load_time, task[t].lighthouse_data,
                                    task[t].reply) IN
       IF r.raised
       THEN Set(t, FlowEnd("error")) /\ UNCHANGED fs
       ELSE /\ Set(t, [FlowEnd("graded") EXCEPT
                          !.issues = IssuesList(r.lines),
                          !.figure = actual_load_time(task[t].load_time,
                                                      task[t].lighthouse_data)])
            /\ fs' = Persisted(fs, sv)
    /\ UNCHANGED <<poolVars, lockVars, envVars>>

\* A flow that ran alone up to the model call (two captures, each in a browser
\* launched for it and closed with its last page), with the load time it
\* measured and the audit record it got.
InitGrade ==
    /\ browsers = <<>>
    /\ playwright = 1
    /\ lockHolder = 0
    /\ lockWaiters = <<>>
    /\ closedB = {1, 2}
    /\ liveDrivers = {1}
    /\ nextPage = 3
    /\ nextBrowser = 3
    /\ fs = [p \in Paths |-> <<1, IF p = "temp_desktop" THEN "desktop" ELSE "mobile">>]
    /\ \E lt \in LoadTimes, lh \in AuditRecords, rp \in LlmReplies :
          task = [t \in Tasks |->
                    IF t = 1
                    THEN [NoTask EXCEPT !.pc = "grading", !.inFlow = TRUE,
                                        !.op = "release", !.result = "ok",
                                        !.curB = 2, !.relPage = 2,
                                        !.device = "mobile",
                                        !.graded = <<fs["temp_desktop"], fs["temp_mobile"]>>,
                                        !.lh = IF lh.available THEN "available"
                                                               ELSE "unavailable",
                                        !.load_time = lt, !.lighthouse_data = lh,
                                        !.reply = rp]
                    ELSE NoTask]

NextGrade == \E t \in Flows, sv \in BOOLEAN : GradeReturn(t, sv)

SpecGrade == InitGrade /\ [][NextGrade]_vars

\* ------------------------------------- get_lighthouse_metrics: extraction
\* The parsed JSON, by what the extraction looks at:
\*   other   it has keys besides "categories" and "audits"
\*   perf    categories.performance.score: "absent" (no categories, or no
\*           performance in it), "noscore" (performance without "score"), "null",
\*           or the score in thousandths
\*   audits  it has "audits"
\*   fcp, lcp, cls, tbt   numericValue of the audit: "absent" (no such audit),
\*           "novalue" (the audit without numericValue), "null", or the number
\*           (milliseconds; thousandths for the layout shift)
PerfSources == {Missing("absent"), Missing("noscore"), Missing("null"), Num(450), Num(900)}
FcpSources == {Missing("absent"), Missing("novalue"), Missing("null"), Num(2000), Num(2600)}
LcpSources == {Missing("absent"), Num(3000)}
ClsSources == {Missing("absent"), Missing("null"), Num(0), Num(100)}
TbtSources == {Missing("absent"), Num(0), Num(250)}
JsonResults ==
    [other : BOOLEAN, perf : PerfSources, audits : BOOLEAN, fcp : FcpSources,
     lcp : LcpSources, cls : ClsSources, tbt : TbtSources]

IsNumber(x) == x.kind = "number"

\* `numericValue` of an audit as the extraction reads it: None unless "audits",
\* the audit and its "numericValue" are there (a JSON null is read as None).
NumericValue(result, a) ==
    IF result.audits /\ IsNumber(result[a]) THEN result[a].value ELSE None

\* get_lighthouse_metrics once _run_lighthouse_audit has returned the parsed
\* JSON: `if result:` (an empty object is falsy); the score is
\* `result["categories"]["performance"]["score"] * 100` whenever the performance
\* category is there (KeyError without "score", TypeError on null); FCP and LCP
\* are `numericValue / 1000` (TypeError on null); CLS and TBT are taken as they
\* are. Any exception goes to the `except`, which returns {"available": False}.
\* Seconds are in tenths, the score in points.
extract_metrics(result) ==
    IF result = NoJson THEN NoMetrics
    ELSE IF result.perf.kind \in {"noscore", "null"} THEN NoMetrics
    ELSE IF result.audits /\ (result.fcp.kind = "null" \/ result.lcp.kind = "null") THEN NoMetrics
    ELSE [available |-> TRUE,
          performance_score |-> IF IsNumber(result.perf)
                                THEN (result.perf.value * 100) \div 1000 ELSE None,
          fcp_seconds |-> IF NumericValue(result, "fcp") = None THEN None
                          ELSE NumericValue(result, "fcp") \div 100,
          lcp_seconds |-> IF NumericValue(result, "lcp") = None THEN None
                          ELSE NumericValue(result, "lcp") \div 100,
          cls_value |-> NumericValue(result, "cls"),
          tbt_ms |-> NumericValue(result, "tbt")]

\* _run_lighthouse_audit has returned the parsed JSON: get_lighthouse_metrics
\* extracts and returns, and analyze_website goes on to the captures.
\* lighthouse_data keeps the fields analyze_screenshots reads.
MetricsExtracted(t) ==
    /\ task[t].pc = "lh_json"
    /\ LET m == extract_metrics(task[t].json) IN
       AfterAudit(t, [task[t] EXCEPT
                         !.metrics = m,
                         !.lh = IF m.available THEN "available" ELSE "unavailable",
                         !.lighthouse_data =
                             [available |-> m.available, fcp_seconds |-> m.fcp_seconds,
                              performance_score |-> m.performance_score]])
    /\ UNCHANGED <<poolVars, lockVars, envVars, fs>>

\* A flow whose audit command has just returned its JSON, on a started pool.
InitMetrics ==
    /\ browsers = <<>>
    /\ playwright = 1
    /\ lockHolder = 0
    /\ lockWaiters = <<>>
    /\ closedB = {}
    /\ liveDrivers = {1}
    /\ nextPage = 1
    /\ nextBrowser = 1
    /\ fs = [p \in Paths |-> NoFile]
    /\ \E j \in JsonResults :
          task = [t \in Tasks |->
                    IF t = 1
                    THEN [NoTask EXCEPT !.pc = "lh_json", !.inFlow = TRUE, !.json = j]
                    ELSE NoTask]

NextMetrics == \E t \in Flows : MetricsExtracted(t)

SpecMetrics == InitMetrics /\ [][NextMetrics]_vars

\* ------------------------------------------------- _capture_screenshots
\* load_time of the mobile capture result: 0.0 when it failed before its
\* navigation ended, else the navigation time (tenths of a second).
MobileTimes == {0, 7, 60}

\* _capture_screenshots returns, after both captures:
\* `"load_time": desktop_result["load_time"]`, handed to analyze_screenshots.
CapturesReturn(t) ==
    /\ task[t].pc = "captured"
    /\ Set(t, [task[t] EXCEPT !.pc = "grading", !.load_time = task[t].nav.desktop])
    /\ UNCHANGED <<poolVars, lockVars, envVars, fs>>

\* A flow that ran alone through its two captures, with the navigation times
\* they measured and the audit record it got.
InitLoadTime ==
    /\ browsers = <<>>
    /\ playwright = 1
    /\ lockHolder = 0
    /\ lockWaiters = <<>>
    /\ closedB = {1, 2}
    /\ liveDrivers = {1}
    /\ nextPage = 3
    /\ nextBrowser = 3
    /\ fs = [p \in Paths |-> <<1, IF p = "temp_desktop" THEN "desktop" ELSE "mobile">>]
    /\ \E dt \in LoadTimes, mt \in MobileTimes, lh \in AuditRecords, rp \in LlmReplies :
          task = [t \in Tasks |->
                    IF t = 1
                    THEN [NoTask EXCEPT !.pc = "captured", !.inFlow = TRUE,
                                        !.op = "release", !.result = "ok",
                                        !.curB = 2, !.relPage = 2,
                                        !.device = "mobile",
                                        !.graded = <<fs["temp_desktop"], fs["temp_mobile"]>>,
                                        !.lh = IF lh.available THEN "available"
                                                               ELSE "unavailable",
                                        !.nav = [desktop |-> dt, mobile |-> mt],
                                        !.lighthouse_data = lh, !.reply = rp]
                    ELSE NoTask]

NextLoadTime ==
    \E t \in Flows : CapturesReturn(t) \/ \E sv \in BOOLEAN : GradeReturn(t, sv)

SpecLoadTime == InitLoadTime /\ [][NextLoadTime]_vars

\* ------------------------------------------ _handle_screenshot_persistence
\* Strings are sequences of one-character strings.
\* str.replace(old, new): every non-overlapping occurrence, left to right.
RECURSIVE replace(_, _, _)
replace(s, old, new) ==
    LET k == MinOf({i \in 1..(Len(s) - Len(old) + 1) : SubSeq(s, i, i + Len(old) - 1) = old})
    IN IF k = 0 THEN s
       ELSE SubSeq(s, 1, k - 1) \o new
            \o replace(SubSeq(s, k + Len(old), Len(s)), old, new)

\* `[:50]` of safe_url
StemLimit == 50

\* Variant of safe_url: no `[:50]`.
safe_url_untruncated(url) ==
    replace(replace(replace(replace(url, <<"h", "t", "t", "p", "s", ":", "/", "/">>, <<>>),
                            <<"h", "t", "t", "p", ":", "/", "/">>, <<>>),
                    <<"/">>, <<"_">>),
            <<"?">>, <<"_">>)

\* url.replace("https://", "").replace("http://", "").replace("/", "_")
\*    .replace("?", "_")[:50]
safe_url(url) ==
    LET r == replace(replace(replace(replace(url, <<"h", "t", "t", "p", "s", ":", "/", "/">>, <<>>),
                                     <<"h", "t", "t", "p", ":", "/", "/">>, <<>>),
                             <<"/">>, <<"_">>),
                     <<"?">>, <<"_">>)
    IN SubSeq(r, 1, IF Len(r) < StemLimit THEN Len(r) ELSE StemLimit)

\* A number as w decimal digits, zero-padded (%Y, %m, %d, %H, %M).
RECURSIVE Digits(_, _)
Digits(n, w) ==
    IF w = 0 THEN <<>>
    ELSE Digits(n \div 10, w - 1) \o <<<<"0", "1", "2", "3", "4", "5", "6", "7", "8", "9">>[(n % 10) + 1]>>

\* datetime.strftime("%Y%m%d_%H%M")
strftime(now) ==
    Digits(now.year, 4) \o Digits(now.month, 2) \o Digits(now.day, 2) \o <<"_">>
    \o Digits(now.hour, 2) \o Digits(now.minute, 2)

DeviceName(d) == IF d = "desktop" THEN <<"d", "e", "s", "k", "t", "o", "p">> ELSE <<"m", "o", "b", "i", "l", "e">>

\* f"desktop_{safe_url}_{timestamp}.png", f"mobile_{safe_url}_{timestamp}.png"
FinalName(d, url, now) ==
    DeviceName(d) \o <<"_">> \o safe_url(url) \o <<"_">> \o strftime(now) \o <<".", "p", "n", "g">>

\* File operations of the persistence step that may raise.
FsOps == {"rename_desktop", "rename_mobile", "unlink_desktop", "unlink_mobile"}

\* _cleanup_temp_screenshots: unlink the desktop file if it exists, then the
\* mobile file; an exception ends the `try` (logged), the rest is not unlinked.
cleanup_temp_screenshots(f, faults) ==
    IF f["temp_desktop"] # NoFile /\ "unlink_desktop" \in faults
    THEN f
    ELSE LET f1 == [f EXCEPT !["temp_desktop"] = NoFile] IN
         IF f1["temp_mobile"] # NoFile /\ "unlink_mobile" \in faults
         THEN f1
         ELSE [f1 EXCEPT !["temp_mobile"] = NoFile]

\* Variant of save_screenshots_with_names: a failed rename is only logged, the
\* fallback to the cleanup is missing.
save_screenshots_no_fallback(f, url, now, faults) ==
    IF f["temp_desktop"] = NoFile \/ "rename_desktop" \in faults
    THEN [fs |-> f, saved |-> NoSaved]
    ELSE LET f1 == [f EXCEPT !["temp_desktop"] = NoFile]
             d == FinalName("desktop", url, now) IN
         IF f1["temp_mobile"] = NoFile \/ "rename_mobile" \in faults
         THEN [fs |-> f1, saved |-> [NoSaved EXCEPT !.desktop = d]]
         ELSE [fs |-> [f1 EXCEPT !["temp_mobile"] = NoFile],
               saved |-> [desktop |-> d, mobile |-> FinalName("mobile", url, now)]]

\* _save_screenshots_with_names: rename the desktop file, then the mobile file,
\* to their final names; a rename that raises (file missing, OSError) goes to
\* the `except`, which falls back to _cleanup_temp_screenshots.
save_screenshots_with_names(f, url, now, faults) ==
    IF f["temp_desktop"] = NoFile \/ "rename_desktop" \in faults
    THEN [fs |-> cleanup_temp_screenshots(f, faults), saved |-> NoSaved]
    ELSE LET f1 == [f EXCEPT !["temp_desktop"] = NoFile]
             d == FinalName("desktop", url, now) IN
         IF f1["temp_mobile"] = NoFile \/ "rename_mobile" \in faults
         THEN [fs |-> cleanup_temp_screenshots(f1, faults),
               saved |-> [NoSaved EXCEPT !.desktop = d]]
         ELSE [fs |-> [f1 EXCEPT !["temp_mobile"] = NoFile],
               saved |-> [desktop |-> d, mobile |-> FinalName("mobile", url, now)]]

\* _handle_screenshot_persistence: the two temp paths are recorded on the
\* analyzer first; then the cleanup, or the save, which records the final paths
\* after both renames (a rename that raised skips the two assignments).
handle_screenshot_persistence(f, save, url, now, faults) ==
    LET h == IF ~save
             THEN [fs |-> cleanup_temp_screenshots(f, faults), saved |-> NoSaved]
             ELSE save_screenshots_with_names(f, url, now, faults)
    IN [fs |-> h.fs, saved |-> h.saved,
        recorded |-> IF h.saved.desktop # <<>> /\ h.saved.mobile # <<>>
                     THEN [desktop |-> [kind |-> "final", name |-> h.saved.desktop],
                           mobile |-> [kind |-> "final", name |-> h.saved.mobile]]
                     ELSE TempRecorded]

\* Request URLs: a scheme, a host (a short one, one of MaxHostLen characters)
\* and a path with a query.
MaxHostLen == 60
UrlSchemes == {<<"h", "t", "t", "p", "s", ":", "/", "/">>, <<"h", "t", "t", "p", ":", "/", "/">>}
UrlHosts == {<<"e", "x", "a", "m", "p", "l", "e", ".", "c", "o", "m">>,
             [i \in 1..MaxHostLen |-> "a"]}
UrlPaths == {<<"/">>, <<"/", "a", "?", "b", "=", "1">>,
             <<"/", "x", "/", "y", "?", "q", "=", "1", "&", "r", "=", "2">>,
             <<"/", "p", "?", "u", "=", "h", "t", "t", "p", "s", ":", "/", "/", "e", ".", "o", "r", "g", "/">>}
Urls == {sc \o h \o pa : sc \in UrlSchemes, h \in UrlHosts, pa \in UrlPaths}
Times == {[year |-> 2025, month |-> 1, day |-> 5, hour |-> 9, minute |-> 3],
          [year |-> 2024, month |-> 12, day |-> 31, hour |-> 23, minute |-> 59]}

\* analyze_screenshots returns to analyze_website: _handle_screenshot_persistence,
\* then the return to the handler. The request and what was saved stay in the record.
PersistReturn(t) ==
    /\ task[t].pc = "grading"
    /\ LET s == task[t]
           r == analyze_screenshots(s.load_time, s.lighthouse_data, s.reply)
           h == handle_screenshot_persistence(fs, s.save, s.url, s.now, s.faults)
           e == [FlowEnd(IF r.raised THEN "error" ELSE "graded") EXCEPT
                    !.url = s.url, !.save = s.save, !.now = s.now, !.faults = s.faults]
       IN IF r.raised
          THEN Set(t, e) /\ UNCHANGED fs
          ELSE /\ Set(t, [e EXCEPT !.issues = IssuesList(r.lines), !.saved = h.saved,
                                  !.recorded = h.recorded])
               /\ fs' = h.fs
    /\ UNCHANGED <<poolVars, lockVars, envVars>>

\* A flow at the model call after its two captures, alone, or after another
\* request has finished and removed the shared temp files; with its request and
\* the file operations that are going to fail.
InitPersist ==
    /\ browsers = <<>>
    /\ playwright = 1
    /\ lockHolder = 0
    /\ lockWaiters = <<>>
    /\ closedB = {1, 2}
    /\ liveDrivers = {1}
    /\ nextBrowser = 3
    /\ \E gone \in BOOLEAN, u \in Urls, sv \in BOOLEAN, n \in Times, fl \in SUBSET FsOps :
          /\ nextPage = IF gone THEN 4 ELSE 3
          /\ fs = [p \in Paths |->
                     IF gone THEN NoFile
                     ELSE <<1, IF p = "temp_desktop" THEN "desktop" ELSE "mobile">>]
          /\ task = [t \in Tasks |->
                       IF t = 1
                       THEN [NoTask EXCEPT !.pc = "grading", !.inFlow = TRUE,
                                           !.op = "release", !.result = "ok",
                                           !.curB = 2, !.relPage = 2,
                                           !.device = "mobile",
                                           !.graded = <<<<1, "desktop">>, <<1, "mobile">>>>,
                                           !.url = u, !.save = sv, !.now = n,
                                           !.faults = fl]
                       ELSE IF t = 2 /\ gone THEN FlowEnd("graded")
                       ELSE NoTask]

NextPersist == \E t \in Flows : PersistReturn(t)

SpecPersist == InitPersist /\ [][NextPersist]_vars

\* ------------------------------- src/apps/backend: _analyze_screenshots
\* Variant of FallbackResults: the score test is `<= 70`.
FallbackResultsInclusive(load_time, lighthouse_data) ==
    LET a == lighthouse_data IN
    IF a.available /\ (a.fcp_seconds = None \/ a.performance_score = None)
    THEN [raised |-> TRUE, lines |-> <<>>]
    ELSE [raised |-> FALSE,
          lines |-> (IF load_time > 30 THEN <<"R2 load_time">> ELSE <<>>)
                    \o (IF a.available /\ a.fcp_seconds > 25
                        THEN <<"R2 fcp_seconds">> ELSE <<>>)
                    \o (IF a.available /\ a.performance_score <= 70
                        THEN <<"R2 performance_score">> ELSE <<>>)]

\* The `except` of WebsiteAnalyzer._analyze_screenshots (times in tenths of a
\* second: `load_time > 3`, `fcp_seconds > 2.5`): one R2 line per figure beyond
\* its limit, joined by "\n". The audit record always has both keys, so a None
\* figure is compared with a number, which raises TypeError.
FallbackResults(load_time, lighthouse_data) ==
    LET a == lighthouse_data IN
    IF a.available /\ (a.fcp_seconds = None \/ a.performance_score = None)
    THEN [raised |-> TRUE, lines |-> <<>>]
    ELSE [raised |-> FALSE,
          lines |-> (IF load_time > 30 THEN <<"R2 load_time">> ELSE <<>>)
                    \o (IF a.available /\ a.fcp_seconds > 25
                        THEN <<"R2 fcp_seconds">> ELSE <<>>)
                    \o (IF a.available /\ a.performance_score < 70
                        THEN <<"R2 performance_score">> ELSE <<>>)]

\* WebsiteAnalyzer._analyze_screenshots of src/apps/backend/analyzer.py after the
\* two files are read: the prompt formats fcp_seconds with `:.1f` (raises on None)
\* before the `try`; the model call returns its text, or raises and the `except`
\* returns the fallback lines.
backend_analyze_screenshots(load_time, lighthouse_data, reply) ==
    IF lighthouse_data.available /\ lighthouse_data.fcp_seconds = None
    THEN [raised |-> TRUE, lines |-> <<>>]
    ELSE IF reply.ok
    THEN [raised |-> FALSE, lines |-> reply.lines]
    ELSE FallbackResults(load_time, lighthouse_data)

\* _analyze_screenshots returns to analyze_website of the backend, which cleans
\* up or saves the temp files and returns the text (here its non-empty lines);
\* or it raises out of analyze_website. The arguments stay in the record.
BackendGradeReturn(t, sv) ==
    /\ task[t].pc = "grading"
    /\ LET r == backend_analyze_screenshots(task[t].load_time,
                                            task[t].lighthouse_data, task[t].reply)
           e == [FlowEnd(IF r.raised THEN "error" ELSE "graded") EXCEPT
                    !.load_time = task[t].load_time,
                    !.lighthouse_data = task[t].lighthouse_data,
                    !.reply = task[t].reply,
                    !.issues = IssuesList(r.lines)]
       IN /\ Set(t, e)
          /\ fs' = IF r.raised THEN fs ELSE Persisted(fs, sv)
    /\ UNCHANGED <<poolVars, lockVars, envVars>>

NextBackendGrade == \E t \in Flows, sv \in BOOLEAN : BackendGradeReturn(t, sv)

SpecBackendGrade == InitGrade /\ [][NextBackendGrade]_vars

Next ==
    \/ \E t \in Flows : FlowStep(t)
    \/ \E t \in Tasks : PoolInner(t)
    \/ \E t \in Callers : PoolCall(t)

Spec == Init /\ [][Next]_vars

\* ---------------------------------------------------------------- claims
RegisteredIn(bs, p) == \E i \in 1..Len(bs) : InSeq(p, bs[i].pages)
TrackedIn(bs, b) == \E i \in 1..Len(bs) : bs[i].b = b

\* The task is inside the `async with self.lock` body of acquire, release or close.
InBody(t) ==
    task[t].pc \in {"acq_newpage", "acq_launch", "acq_firstpage", "rel_pageclose",
                    "rel_browserclose", "close_loop", "close_stop"}

\* This step ends a call of the pool operation o by task t.
Ends(t, o) == task'[t] # task[t] /\ task'[t].pc = "idle" /\ task'[t].op = o

\* C1: in every reachable state the registered pages are at most
\* max_browsers * max_tabs_per_browser, the tracked browsers at most max_browsers,
\* and no tracked browser has more than max_tabs_per_browser pages.
C1_PoolBounds ==
    /\ NumPages <= Capacity
    /\ Len(browsers) <= max_browsers
    /\ \A i \in 1..Len(browsers) : Len(browsers[i].pages) <= max_tabs_per_browser

C1_Full == NumPages = Capacity /\ Len(browsers) = max_browsers /\ lockHolder # 0

\* C2: an acquire fails with the pool-exhausted error exactly when Capacity pages
\* are registered; below that it raises only what the driver raises (or, with no
\* await, because the pool was never started), and a successful acquire registers
\* one more page. So from an empty started pool Capacity acquires without a
\* release succeed and the next one is refused.
C2_Exhaustion ==
    [][\A t \in Callers :
          Ends(t, "acquire") =>
              /\ (task'[t].result = "exhausted") <=> (NumPages = Capacity)
              /\ task'[t].result = "ok" =>
                     NumPages < Capacity /\ NumPages' = NumPages + 1
              /\ (task'[t].result = "error" /\ ~InBody(t)) => playwright = 0]_vars

C2_Refused ==
    \E t \in Callers :
        /\ task[t].pc = "idle" /\ task[t].op = "acquire" /\ task[t].result = "exhausted"
        /\ NumPages = Capacity
        /\ nextPage = Capacity + 1

\* C3: when a release of a registered page returns, the page is in no page list,
\* and its browser is either still tracked with other pages or not tracked any
\* more, whether or not page.close() or browser.close() raised.
C3_ReleaseUnregisters ==
    [][\A t \in Callers :
          (Ends(t, "release") /\ task[t].pc \in {"rel_pageclose", "rel_browserclose"}) =>
              /\ ~RegisteredIn(browsers', task[t].relPage)
              /\ \A i \in 1..Len(browsers') :
                     browsers'[i].b = task[t].curB => browsers'[i].pages # <<>>]_vars

C3_CloseFailed ==
    \E t \in Callers :
        /\ task[t].pc = "idle" /\ task[t].op = "release" /\ task[t].result = "ok"
        /\ task[t].swallowed
        /\ browsers = <<>>

\* C4: when _capture_single_screenshot returns, whatever its outcome, the page it
\* acquired is not registered in the pool.
C4_CaptureReleases ==
    \A t \in Flows : task[t].pc = "cap_done" => ~Registered(task[t].page)

C4_FailedCapture ==
    \E t \in Flows :
        /\ task[t].pc = "cap_done"
        /\ task[t].page # 0
        /\ task[t].capRes = "timeout"

\* C5: a page stays registered only while the flow that acquired it is in
\* flight: once the analyze call is over, cancelled or not, its page is in no
\* page list.
C5_CancelReleases ==
    \A i \in 1..Len(browsers) :
        \A k \in 1..Len(browsers[i].pages) :
            \E t \in Flows : task[t].pc # "done" /\ task[t].page = browsers[i].pages[k]

\* C6: the two images a flow hands to grading are images that flow captured.
C6_OwnImages ==
    \A t \in Flows :
        task[t].pc = "grading" => task[t].graded[1][1] = t /\ task[t].graded[2][1] = t

\* C7: at most one driver created by start() is alive at any time.
C7_OneDriver == Cardinality(liveDrivers) <= 1

\* C8: every call of close() ends without an error, with no tracked browser, no
\* registered page and no driver.
C8_CloseClears ==
    [][\A t \in Callers :
          Ends(t, "close") =>
              /\ task'[t].result = "ok"
              /\ browsers' = <<>>
              /\ playwright' = 0]_vars

\* A browser whose page list is empty, or that was closed, is tracked only while
\* the release (or close) that is closing it owns the lock.
C9_Reclaimed ==
    \A i \in 1..Len(browsers) :
        (browsers[i].pages = <<>> \/ browsers[i].b \in closedB) =>
            \E t \in Tasks :
                /\ lockHolder = t
                /\ \/ task[t].pc = "rel_browserclose" /\ task[t].curB = browsers[i].b
                   \/ task[t].pc = "close_loop"

\* A release that awaited browser.close() returns with that browser closed and
\* untracked; a successful acquire returns a page of a tracked browser that is
\* not closed, and a browser it added was never tracked or closed before.
C9_Step ==
    \A t \in Callers :
        /\ (Ends(t, "release") /\ task[t].pc = "rel_browserclose") =>
               task[t].curB \in closedB' /\ ~TrackedIn(browsers', task[t].curB)
        /\ (Ends(t, "acquire") /\ task'[t].result = "ok") =>
               LET b == browsers'[Len(browsers')].b IN
               /\ TrackedIn(browsers', task[t].curB)
               /\ task[t].curB \notin closedB'
               /\ Len(browsers') > Len(browsers) =>
                      b = task[t].curB /\ ~TrackedIn(browsers, b) /\ b \notin closedB

\* C9: the release that removes the last page of a browser closes the browser
\* and stops tracking it before it returns, and a later acquire that needs a
\* browser launches a new one, never handing out a page of the closed one.
C9_BrowserReclaimed == []C9_Reclaimed /\ [][C9_Step]_vars

C9_Relaunched ==
    /\ closedB # {}
    /\ browsers # <<>>
    /\ \A i \in 1..Len(browsers) : browsers[i].b \notin closedB
    /\ \E t \in Callers : task[t].pc = "idle" /\ task[t].op = "acquire"
                          /\ task[t].result = "ok"

\* C10: at most one task at a time is inside the body of acquire, release or
\* close, and it owns the lock.
C10_Serialized ==
    \A t, u \in Tasks : (InBody(t) /\ InBody(u)) => (t = u /\ lockHolder = t)

C10_Contended ==
    \E t, u \in Tasks :
        /\ InBody(t)
        /\ task[u].pc \in {"acq_wait", "rel_wait", "close_wait"}
        /\ task[u].inFlow

\* C11: a task suspended on driver I/O (browser launch, page open, page close,
\* browser close, driver stop) does not own the pool lock.
C11_NoIOUnderLock == \A t \in Tasks : InBody(t) => lockHolder # t

\* The task is suspended in a step of the pipeline outside the pool: the audit,
\* page configuration, navigation, the screenshot, or the model call.
InPipelineStep(t) == task[t].pc \in {"lh", "cap_config", "cap_goto", "cap_shot", "grading"}

\* C12: a flow suspended on the audit, navigation, the screenshot or the model
\* call does not own the pool lock and is not queued for it.
C12_StepsOutsideLock ==
    \A t \in Flows :
        InPipelineStep(t) => lockHolder # t /\ ~InSeq(t, lockWaiters)

C12_OtherInPool ==
    \E t, u \in Flows :
        /\ task[t].pc = "cap_goto"
        /\ lockHolder = u
        /\ task[u].pc = "rel_pageclose"

Slots ==
    {x \in (1..Len(browsers)) \X (1..max_tabs_per_browser) :
         x[2] <= Len(browsers[x[1]].pages)}

\* C14: every registered page is at exactly one position of exactly one tracked
\* browser's page list, and no browser is tracked twice.
C14_PageOnce ==
    /\ \A x, y \in Slots :
           browsers[x[1]].pages[x[2]] = browsers[y[1]].pages[y[2]] => x = y
    /\ \A i, j \in 1..Len(browsers) : browsers[i].b = browsers[j].b => i = j

C14_Spread ==
    /\ Len(browsers) = max_browsers
    /\ NumPages = Capacity - 1
    /\ lockHolder = 0
    /\ closedB # {}

\* C15: when the desktop capture returns a timeout-classified failure,
\* analyze_website ends there with the timeout message and starts nothing else;
\* and a flow turns to the mobile capture only from the return of a successful
\* desktop capture.
C15_DesktopTimeoutAborts ==
    [][\A t \in Flows :
          /\ (/\ task[t].pc = "cap_done"
              /\ task[t].device = "desktop"
              /\ task[t].capRes = "timeout"
              /\ task'[t] # task[t]) =>
                 task'[t] = FlowEnd("aborted_timeout")
          /\ (task[t].device # "mobile" /\ task'[t].device = "mobile") =>
                 /\ task[t].pc = "cap_done"
                 /\ task[t].device = "desktop"
                 /\ task[t].capRes = "ok"
          /\ task[t].pc = "done" => task'[t] = task[t]]_vars

C15_Aborted ==
    \E t \in Flows :
        /\ task[t].pc = "done"
        /\ task[t].outcome = "aborted_timeout"
        /\ fs["temp_mobile"] = NoFile

\* C16: when the mobile capture of a flow returns a failure (its desktop capture
\* had succeeded), the flow goes on to grading, with the mobile image file an
\* existing copy of the existing desktop image file.
C16_MobileFallback ==
    [][\A t \in Flows :
          (/\ task[t].pc = "cap_done"
           /\ task[t].device = "mobile"
           /\ task[t].capRes # "ok"
           /\ task'[t] # task[t]) =>
              /\ task'[t].pc = "grading"
              /\ fs'["temp_desktop"] # NoFile
              /\ fs'["temp_mobile"] = fs'["temp_desktop"]
              /\ task'[t].graded = <<fs'["temp_desktop"], fs'["temp_mobile"]>>]_vars

\* C17: in both implementations of analyze_website, when the desktop capture has
\* succeeded and acquire() for the mobile page finds the pool exhausted, the
\* failure is recovered locally: the call does not raise, the desktop image is
\* reused as the mobile image and grading starts on the two images.
C17_ExhaustedRecovered ==
    [][\A t \in Flows :
          /\ (/\ task[t].inFlow
              /\ task[t].device = "mobile"
              /\ \/ task[t].pc = "acq_call" /\ LockFree
                 \/ task[t].pc = "acq_wait" /\ lockHolder = t
              /\ NumPages = Capacity
              /\ task'[t] # task[t]
              /\ task'[t].outcome # "timeout")
             => task'[t].pc = "cap_done" /\ task'[t].capRes = "exhausted"
          /\ (/\ task[t].pc = "cap_done"
              /\ task[t].device = "mobile"
              /\ task[t].capRes = "exhausted"
              /\ task'[t] # task[t])
             => /\ task'[t].pc = "grading"
                /\ fs'["temp_desktop"] # NoFile
                /\ fs'["temp_mobile"] = fs'["temp_desktop"]
                /\ task'[t].graded = <<fs'["temp_desktop"], fs'["temp_mobile"]>>
      ]_vars

\* The flow is inside get_lighthouse_metrics.
InAudit(t) == task[t].pc \in {"lh_check", "lh_autostart", "lh_audit"}

\* C18: whatever the runtime check and the audit command do, the audit step does
\* not raise: get_lighthouse_metrics returns a record with an available flag and
\* analyze_website goes on to the desktop capture.
C18_AuditNeverRaises ==
    [][\A t \in Flows :
          (InAudit(t) /\ task'[t] # task[t] /\ task'[t].outcome # "timeout")
          => \/ task'[t].pc \in {"lh_autostart", "lh_audit"}
             \/ /\ task'[t].lh \in {"available", "unavailable"}
                /\ task'[t].device = "desktop"
                /\ task'[t].pc \in {"start_await", "acq_call"}
      ]_vars

\* C19: in the HTTP-served pipeline an audit command that runs into
\* lighthouse_timeout is recovered locally: the flow goes on to the capture with
\* audit available = false, the analyze call does not end with the timeout error.
C19_AuditTimeoutRecovered ==
    [][\A t \in Flows :
          (/\ ~task[t].old
           /\ task[t].pc = "lh_audit"
           /\ task[t].dur >= lighthouse_timeout
           /\ task'[t] # task[t])
          => /\ task'[t].outcome # "timeout"
             /\ task'[t].lh = "unavailable"
             /\ task'[t].device = "desktop"
             /\ task'[t].pc \in {"start_await", "acq_call"}
      ]_vars

\* A figure of the grading input is beyond its configured threshold: the audit's
\* FCP or performance score when the audit is available, else the measured load time.
ThresholdViolated(load_time, lighthouse_data) ==
    IF lighthouse_data.available
    THEN \/ lighthouse_data.fcp_seconds > fcp_threshold
         \/ /\ lighthouse_data.performance_score # None
            /\ lighthouse_data.performance_score < performance_score_threshold
    ELSE load_time > load_time_threshold

\* C20: when the model call fails, analyze_screenshots falls back to the rule set:
\* the returned issues hold a slow-load entry (R2) exactly when a figure is beyond
\* its threshold, and no entry at all when none is.
C20_FallbackRules ==
    [][\A t \in Flows :
          (/\ task[t].pc = "grading"
           /\ ~task[t].reply.ok
           /\ task'[t].outcome = "graded")
          => LET v == ThresholdViolated(task[t].load_time, task[t].lighthouse_data) IN
             /\ (\E k \in 1..Len(task'[t].issues) : task'[t].issues[k] = "R2") <=> v
             /\ ~v => task'[t].issues = <<>>
      ]_vars

\* C21: in the backend _analyze_screenshots, with an available audit and a failing
\* model call, the fallback output holds a line stating the low performance score
\* exactly when the score is below 70.
C21_ScoreLine ==
    \A t \in Flows :
        (/\ task[t].pc = "done"
         /\ task[t].outcome = "graded"
         /\ ~task[t].reply.ok
         /\ task[t].lighthouse_data.available)
        => ((\E k \in 1..Len(task[t].issues) : task[t].issues[k] = "R2 performance_score")
            <=> task[t].lighthouse_data.performance_score < 70)

C21_LowScore ==
    \E t \in Flows :
        /\ task[t].pc = "done"
        /\ task[t].outcome = "graded"
        /\ ~task[t].reply.ok
        /\ task[t].lighthouse_data.performance_score = 45
        /\ \E k \in 1..Len(task[t].issues) : task[t].issues[k] = "R2 performance_score"

\* The stage of analyze_website a flow record is in: 1 audit, 2 desktop capture,
\* 3 mobile capture, 4 grading (persistence follows it without an await), 5 over.
StageOf(s) ==
    IF s.pc = "idle" THEN 0
    ELSE IF s.pc = "done" THEN 5
    ELSE IF s.pc \in {"lh", "lh_check", "lh_autostart", "lh_audit"} THEN 1
    ELSE IF s.pc = "grading" THEN 4
    ELSE IF s.device = "desktop" THEN 2
    ELSE 3

\* C22: a run of analyze_website goes through audit, desktop capture, mobile
\* capture, grading, persistence, done in this order, one stage at a time; it
\* ends early only as aborted from the desktop capture, and no failure of
\* another stage makes it raise. (The handler's timeout is left aside.)
C22_StageOrder ==
    [][\A t \in Flows :
          (task'[t] # task[t] /\ task'[t].outcome # "timeout")
          => \/ StageOf(task'[t]) = StageOf(task[t])
             \/ /\ StageOf(task'[t]) = StageOf(task[t]) + 1
                /\ task'[t].pc = "done" => task'[t].outcome = "graded"
             \/ /\ StageOf(task[t]) = 2
                /\ task'[t].pc = "done"
                /\ task'[t].outcome \in {"aborted_timeout", "aborted_error"}
      ]_vars

\* C23: on every exit path of an analyze call (completion, desktop abort, mobile
\* fallback, exception, cancellation by the handler's timeout) no temp file the
\* call wrote remains on disk once the call is over.
C23_CleanupEveryExit ==
    [][\A t \in Flows :
          (task[t].pc # "done" /\ task'[t].pc = "done")
          => \A p \in Paths : fs'[p][1] # t
      ]_vars

\* The parts of a saved file name of device d: what stands between the device
\* prefix and the 18 characters "_YYYYMMDD_HHMM.png", and the 13 of the time.
StemOf(name, d) == SubSeq(name, Len(DeviceName(d)) + 2, Len(name) - 18)
StampOf(name) == SubSeq(name, Len(name) - 16, Len(name) - 4)
DigitSet == {"0", "1", "2", "3", "4", "5", "6", "7", "8", "9"}
ExampleUrl == <<"h", "t", "t", "p", "s", ":", "/", "/", "e", "x", "a", "m", "p", "l", "e", ".", "c", "o", "m", "/", "a", "?", "b", "=", "1">>
\* The URL after its leading scheme.
AfterScheme(url) ==
    IF SubSeq(url, 1, 8) = <<"h", "t", "t", "p", "s", ":", "/", "/">> THEN SubSeq(url, 9, Len(url))
    ELSE IF SubSeq(url, 1, 7) = <<"h", "t", "t", "p", ":", "/", "/">> THEN SubSeq(url, 8, Len(url))
    ELSE url
\* "://" occurs in the sequence.
HasScheme(s) == \E i \in 1..(Len(s) - 2) : SubSeq(s, i, i + 2) = <<":", "/", "/">>

\* The name of a saved file is <device>_<stem>_<YYYYMMDD_HHMM>.png, the stem has at
\* most 50 characters and neither '/' nor '?', and for a URL with no second scheme
\* in it the stem is the URL after its scheme, character by character, with '/'
\* and '?' turned into '_' and every other character kept.
NameFormat(t, d) ==
    LET n == task[t].saved[d]
        stem == StemOf(n, d)
        stamp == StampOf(n)
        rest == AfterScheme(task[t].url)
    IN n # <<>> =>
       /\ SubSeq(n, 1, Len(DeviceName(d)) + 1) = DeviceName(d) \o <<"_">>
       /\ SubSeq(n, Len(n) - 3, Len(n)) = <<".", "p", "n", "g">>
       /\ n[Len(n) - 17] = "_"
       /\ stamp[9] = "_"
       /\ \A i \in (1..13) \ {9} : stamp[i] \in DigitSet
       /\ task[t].now = [year |-> 2025, month |-> 1, day |-> 5, hour |-> 9, minute |-> 3]
          => stamp = <<"2", "0", "2", "5", "0", "1", "0", "5", "_", "0", "9", "0", "3">>
       /\ Len(stem) <= 50
       /\ \A i \in 1..Len(stem) : stem[i] \notin {"/", "?"}
       /\ ~HasScheme(rest)
          => /\ Len(stem) = (IF Len(rest) < 50 THEN Len(rest) ELSE 50)
             /\ \A i \in 1..Len(stem) :
                   stem[i] = IF rest[i] \in {"/", "?"} THEN "_" ELSE rest[i]

C29_PersistenceNeverRaises ==
    [][\A t \in Flows :
          (task[t].pc = "grading" /\ task'[t].pc = "done")
          => LET s == task[t]
                 r == analyze_screenshots(s.load_time, s.lighthouse_data, s.reply)
             IN ~r.raised
                => /\ task'[t].outcome = "graded"
                   /\ task'[t].issues = IssuesList(r.lines)
                   /\ (/\ s.save
                       /\ s.faults \cap {"rename_desktop", "rename_mobile"} # {}
                       /\ s.faults \cap {"unlink_desktop", "unlink_mobile"} = {})
                      => \A p \in Paths : fs'[p] = NoFile
      ]_vars

C29_RenameFailedCleaned ==
    \E t \in Flows :
        /\ task[t].pc = "done"
        /\ task[t].outcome = "graded"
        /\ task[t].save
        /\ task[t].faults = {"rename_mobile"}
        /\ task[t].saved.desktop # <<>>
        /\ task[t].saved.mobile = <<>>
        /\ \A p \in Paths : fs[p] = NoFile

\* The tracked browsers with fewer than max_tabs_per_browser pages.
WithRoom == {i \in 1..Len(browsers) : Len(browsers[i].pages) < max_tabs_per_browser}

\* C25: acquire is first-fit in insertion order: the new page is opened on, and
\* appended to, the earliest-launched tracked browser with fewer than
\* max_tabs_per_browser pages; a browser is launched only when every tracked
\* browser is full and fewer than max_browsers are tracked.
C25_FirstFit ==
    [][\A t \in Tasks :
          /\ (task[t].pc \in {"idle", "acq_wait", "acq_call"} /\ task'[t].pc = "acq_newpage")
             => \E i \in WithRoom :
                   /\ task'[t].curB = browsers[i].b
                   /\ \A k \in WithRoom : i <= k /\ browsers[i].b <= browsers[k].b
          /\ (task[t].pc \in {"idle", "acq_wait", "acq_call"} /\ task'[t].pc = "acq_launch")
             => WithRoom = {} /\ Len(browsers) < max_browsers
          /\ (task[t].pc = "acq_newpage" /\ task'[t].pc # "acq_newpage" /\ browsers' # browsers)
             => \E i \in WithRoom :
                   /\ \A k \in WithRoom : i <= k
                   /\ browsers' = [browsers EXCEPT ![i].pages = Append(@, nextPage)]
          /\ (task[t].pc = "acq_firstpage" /\ browsers' # browsers)
             => /\ WithRoom = {}
                /\ Len(browsers) < max_browsers
                /\ Len(browsers') = Len(browsers) + 1
      ]_vars

C25_TwoWithRoom ==
    \E t \in Tasks :
        /\ task[t].pc = "acq_newpage"
        /\ Len(browsers) = 2
        /\ WithRoom = {1, 2}
        /\ task[t].curB = browsers[1].b

\* C26: with an available audit record, whichever of its numeric fields are
\* unset, the grading step does not raise: the analyze call returns a result.
C26_OptionalFieldsTolerated ==
    [][\A t \in Flows :
          (task[t].pc = "grading" /\ task'[t].pc = "done" /\ task[t].lighthouse_data.available)
          => task'[t].outcome = "graded"
      ]_vars

\* C27: the load time written into the grading prompt is the audit's
\* first-contentful-paint when the audit record is available, and the navigation
\* time of the desktop capture when it is not; never the mobile capture's.
C27_LoadTimeFigure ==
    [][\A t \in Flows :
          /\ (task[t].pc = "captured" /\ task'[t].pc = "grading")
             => task'[t].load_time = task[t].nav.desktop
          /\ (task[t].pc = "grading" /\ task'[t].pc = "done" /\ task'[t].outcome = "graded")
             => /\ task[t].lighthouse_data.available
                   => task'[t].figure = task[t].lighthouse_data.fcp_seconds
                /\ ~task[t].lighthouse_data.available
                   => task'[t].figure = task[t].load_time
                /\ task'[t].figure \notin MobileTimes
      ]_vars

C27_FcpUsed ==
    \E t \in Flows :
        /\ task[t].pc = "done"
        /\ task[t].outcome = "graded"
        /\ task[t].figure = fcp_threshold + 1

\* The source field of a figure is present in the parsed JSON: a score in the
\* performance category, a numericValue in the audit.
Present(result, a) ==
    IF a = "perf" THEN result.perf.kind \notin {"absent", "noscore"}
    ELSE result.audits /\ result[a].kind \notin {"absent", "novalue"}

\* C28: for a parsed audit JSON each of performance_score, fcp_seconds,
\* lcp_seconds, cls_value and tbt_ms is set exactly when its source field is
\* present (score x 100, milliseconds / 1000) and unset, not zero, otherwise; an
\* absent source field, a performance category without a score included, leaves
\* the record available with the other fields extracted.
C28_FieldWise ==
    [][\A t \in Flows :
          (task[t].pc = "lh_json" /\ task'[t].pc # "lh_json" /\ task[t].json # NoJson)
          => LET j == task[t].json
                 m == task'[t].metrics
             IN (\A a \in {"perf", "fcp", "lcp", "cls", "tbt"} :
                     Present(j, a) => IsNumber(j[a]))
                => /\ m.available
                   /\ m.performance_score =
                         IF Present(j, "perf") THEN (j.perf.value * 100) \div 1000 ELSE None
                   /\ m.fcp_seconds = IF Present(j, "fcp") THEN j.fcp.value \div 100 ELSE None
                   /\ m.lcp_seconds = IF Present(j, "lcp") THEN j.lcp.value \div 100 ELSE None
                   /\ m.cls_value = IF Present(j, "cls") THEN j.cls.value ELSE None
                   /\ m.tbt_ms = IF Present(j, "tbt") THEN j.tbt.value ELSE None
      ]_vars

\* The text has the letters of "timeout" in a row, in either case.
SaysTimeout(text) ==
    \E i \in 1..(Len(text) - 6) :
        /\ text[i] \in {"t", "T"}
        /\ text[i + 1] \in {"i", "I"}
        /\ text[i + 2] \in {"m", "M"}
        /\ text[i + 3] \in {"e", "E"}
        /\ text[i + 4] \in {"o", "O"}
        /\ text[i + 5] \in {"u", "U"}
        /\ text[i + 6] \in {"t", "T"}

\* C30: a failed capture is reported as a timeout exactly when the error text
\* has "timeout" in it, in any case, and as an access error otherwise; the
\* access-error message holds the first 100 characters of the text at most;
\* the pool-exhausted error of acquire is reported as an access error of the
\* capture, the call does not raise.
C30_Classification ==
    [][\A t \in Flows :
          (task[t].pc = "cap_done" /\ task'[t].pc = "done" /\ task[t].capRes # "ok")
          => LET text == IF task[t].capRes = "exhausted" THEN PoolBusyText
                         ELSE task[t].error
                 m == task'[t].message
             IN /\ task'[t].outcome =
                      IF SaysTimeout(text) THEN "aborted_timeout" ELSE "aborted_error"
                /\ m.kind = IF SaysTimeout(text) THEN "timeout" ELSE "access_error"
                /\ m.kind = "access_error"
                   => /\ Len(m.detail) <= 100
                      /\ Len(m.detail) = IF Len(text) < 100 THEN Len(text) ELSE 100
                      /\ \A i \in 1..Len(m.detail) : m.detail[i] = text[i]
      ]_vars

C30_ExhaustedReported ==
    \E t \in Flows :
        /\ task[t].pc = "done"
        /\ task[t].outcome = "aborted_error"
        /\ task[t].message.kind = "access_error"
        /\ task[t].message.detail = PoolBusyText

\* C31: _ensure_docker_running ends after a bounded number of `docker info` runs:
\* with auto-start off it returns False after the initial check alone, with no
\* start command; with auto-start on it returns True at the first run that
\* succeeds and False after at most 12 (macOS) or 2 (Linux) runs that follow the
\* start command.
C31_BoundedProbes ==
    [][\A t \in Flows :
          (task[t].dk.ret = "none" /\ task'[t].dk.ret # "none")
          => LET d == task'[t].dk IN
             /\ d.ret \in {"true", "false"}
             /\ (d.ret = "true") <=> (d.last = "running")
             /\ ~d.auto => d.probes = 0 /\ d.starts = 0
             /\ d.probes <= (IF d.platform = "darwin" THEN 12
                             ELSE IF d.platform = "linux" THEN 2 ELSE 0)
      ]_vars

\* C32: every browser the pool has launched and that has not been closed is in
\* the pool's list (or is the one an acquire in progress is opening the first
\* page of): no launched browser runs outside the tracked state.
C32_LaunchedTracked ==
    \A b \in 1..(nextBrowser - 1) :
        \/ b \in closedB
        \/ Tracked(b)
        \/ \E t \in Tasks : task[t].pc = "acq_firstpage" /\ task[t].curB = b

\* Every analyze flow is over or was never begun, none was cancelled, and
\* close() was not called.
AllReturned ==
    /\ \A t \in Flows : task[t].pc \in {"idle", "done"} /\ task[t].outcome # "timeout"
    /\ \E t \in Flows : task[t].pc = "done"
    /\ task[Service].op # "close"

\* C33: once every analyze flow that used the pool has returned (normally or by
\* an abort, with no cancellation and no close()), the pool tracks no browser
\* and no page.
C33_Quiescence ==
    AllReturned => browsers = <<>> /\ NumPages = 0

C33_AllCaptured ==
    /\ AllReturned
    /\ \A t \in Flows : task[t].outcome = "graded"
    /\ nextPage = 2 * NumFlows + 1
    /\ browsers = <<>>

\* The registered pages that analyze flows of the model acquired.
OwnPages ==
    {p \in PageIds : Registered(p)}

\* C34: an analyze flow has at most one registered page at a time (the desktop
\* page is released before the mobile page is acquired): the flows that have
\* begun never occupy more page slots than there are of them.
C34_OnePagePerFlow ==
    Cardinality(OwnPages) <= Cardinality({t \in Flows : task[t].pc # "idle"})

C34_MobileBesideOther ==
    /\ Cardinality(OwnPages) = NumFlows
    /\ \E t \in Flows :
          task[t].pc = "cap_goto" /\ task[t].device = "mobile" /\ Registered(task[t].page)

\* C35: whenever the lock is free (no task is inside acquire, release or close),
\* every tracked browser has at least one and at most max_tabs_per_browser
\* registered pages.
C35_NoEmptyBrowser ==
    (lockHolder = 0 /\ lockWaiters = <<>>)
    => \A i \in 1..Len(browsers) :
          /\ Len(browsers[i].pages) >= 1
          /\ Len(browsers[i].pages) <= max_tabs_per_browser

\* C36: the lock is given back on every exit of acquire, release and close,
\* exceptions included: when every awaited driver call returns or raises, every
\* pool call that was begun returns or raises.
C36_CallsEnd ==
    \A t \in Callers : (task[t].pc # "idle") ~> (task[t].pc = "idle")

C36_LockReusedAfterRaise ==
    \E t, u \in Callers :
        /\ task[t].pc = "idle" /\ task[t].op = "acquire" /\ task[t].result = "error"
        /\ task[u].pc \in {"acq_newpage", "acq_launch", "acq_firstpage"}
        /\ lockHolder = u

\* C37: release(page) of a page that is not registered (released before, or the
\* pool was cleared by close()) raises nothing, closes nothing and leaves the
\* pool as it is: release awaits a close only for a registered page, and a
\* release that returns at once has changed nothing.
C37_UnregisteredRelease ==
    [][\A t \in Callers :
          /\ (task[t].pc \in {"idle", "rel_wait"} /\ task'[t].pc = "rel_pageclose")
             => Registered(task'[t].relPage)
          /\ (task[t].pc = "rel_wait" /\ lockHolder = t /\ task'[t] # task[t]
              /\ ~Registered(task[t].relPage))
             => task'[t].pc = "idle"
          /\ (task[t].pc \in {"idle", "rel_wait"} /\ task'[t].pc = "idle"
              /\ task'[t] # task[t] /\ task'[t].op = "release")
             => /\ task'[t].result = "ok"
                /\ ~task'[t].swallowed
                /\ browsers' = browsers
                /\ closedB' = closedB
                /\ playwright' = playwright
      ]_vars

C37_ClearedWhileWaiting ==
    \E t, u \in Callers :
        /\ task[t].pc = "rel_wait"
        /\ task[t].relPage < nextPage
        /\ ~Registered(task[t].relPage)
        /\ task[u].pc = "close_stop"

\* C38: an acquire of a flow that runs after close() has completed, with no
\* start() since, fails and registers nothing; the capture reports it as a
\* capture failure: the desktop capture aborts the analysis with the error
\* message, the mobile capture falls back to the desktop image; no exception
\* leaves analyze_website.
C38_AcquireAfterClose ==
    [][\A t \in Flows :
          /\ (/\ task[t].pc \in {"acq_call", "acq_wait"}
              /\ playwright = 0
              /\ task'[t] # task[t]
              /\ task'[t].pc # "acq_wait"
              /\ ~(task'[t].pc = "done" /\ task'[t].outcome = "timeout"))
             => /\ task'[t].pc = "cap_done"
                /\ task'[t].capRes = "error"
                /\ task'[t].message.kind # "timeout"
                /\ browsers' = browsers
                /\ nextPage' = nextPage
                /\ nextBrowser' = nextBrowser
          /\ (task[t].pc = "cap_done" /\ task[t].capRes = "error" /\ task'[t].pc # "cap_done")
             => IF task[t].device = "desktop"
                THEN task'[t].pc = "done" /\ task'[t].outcome = "aborted_error"
                ELSE fs["temp_desktop"] # NoFile
                     => /\ task'[t].pc = "grading"
                        /\ fs'["temp_mobile"] = fs["temp_desktop"]
      ]_vars

C38_MobileAfterClose ==
    \E t \in Flows :
        /\ task[t].pc = "cap_done"
        /\ task[t].device = "mobile"
        /\ task[t].op = "acquire"
        /\ task[t].capRes = "error"
        /\ playwright = 0
        /\ task[Service].op = "close"
        /\ task[Service].pc = "idle"

\* A file is at a path recorded on the analyzer: the temp file of the device is
\* on disk, or the final name is one the rename produced.
FileAt(s, d) ==
    CASE s.recorded[d].kind = "temp" -> fs[TempPath(d)] # NoFile
      [] s.recorded[d].kind = "final" -> s.saved[d] = s.recorded[d].name
      [] OTHER -> FALSE

\* C39: when analyze_website has returned normally with a desktop and a mobile
\* screenshot path recorded on the analyzer, a file exists at each recorded
\* path: with save off, with save on, and with save on and a failed rename.
C39_RecordedFilesExist ==
    \A t \in Flows :
        (/\ task[t].pc = "done"
         /\ task[t].outcome = "graded"
         /\ task[t].recorded.desktop.kind # "none"
         /\ task[t].recorded.mobile.kind # "none")
        => FileAt(task[t], "desktop") /\ FileAt(task[t], "mobile")
====
